---------------------------- MODULE Spec2Model ----------------------------
(***************************************************************************)
(* Model of core/brain.py (Brain.__init__, Brain.complete,                 *)
(* Brain._parse_response), of core/observability.py (the lazily created    *)
(* Langfuse client and the operations on it) and of the message models of  *)
(* core/schema.py.                                                         *)
(*                                                                         *)
(* Python values are tagged records, so that None, strings, lists and      *)
(* mappings can be told apart:  [type |-> "NoneType"], [type |-> "str"..]. *)
(* The external services (the gateway client, the Langfuse client and      *)
(* time.sleep) are stubs that append what they are asked to `log`.         *)
(***************************************************************************)
EXTENDS Integers, Sequences, FiniteSets, TLC

\* ------------------------------------------------------------------ bounds
MaxRetries == 3
MaxRetryDelay == 2
MaxToolCalls == 2
MaxCalls == 2
MaxClients == 2
NumThreads == 2
MaxGets == 2
MaxClock == 2
MaxThreads == 2
MaxMessages == 3
MaxOps == 3

\* ----------------------------------------------------------- Python values
None == [type |-> "NoneType"]
PyStr(s) == [type |-> "str", str |-> s]
PyInt(n) == [type |-> "int", int |-> n]
PyList(xs) == [type |-> "list", list |-> xs]
PyDict(f) == [type |-> "dict", dict |-> f]
PyBool(b) == [type |-> "bool", bool |-> b]
\* a float, in tenths
PyFloat(tenths) == [type |-> "float", tenths |-> tenths]
EmptyDict == PyDict(<<>>)

\* bool(v) for the values the model uses
Truthy(v) ==
    CASE v.type = "NoneType" -> FALSE
      [] v.type = "bool" -> v.bool
      [] v.type = "float" -> v.tenths # 0
      [] v.type = "list" -> Len(v.list) > 0
      [] v.type = "dict" -> DOMAIN v.dict # {}
      [] v.type = "int" -> v.int # 0
      [] v.type = "str" -> v.str # ""
      [] OTHER -> TRUE

\* d[k] = v on a mapping (a later duplicate key overwrites the earlier one)
DictSet(d, k, v) == [x \in (DOMAIN d) \cup {k} |-> IF x = k THEN v ELSE d[x]]

\* -------------------------------------------------------------- exceptions
\* The base class of each exception class the model raises.
BaseOf(cls) ==
    CASE cls = "RateLimitError" -> "APIStatusError"
      [] cls = "APIStatusError" -> "APIError"
      [] cls = "APIConnectionError" -> "APIError"
      [] cls = "APIError" -> "OpenAIError"
      [] cls = "OpenAIError" -> "Exception"
      [] cls = "JSONDecodeError" -> "ValueError"
      [] cls = "ValueError" -> "Exception"
      [] cls = "TypeError" -> "Exception"
      [] cls = "IndexError" -> "Exception"
      [] cls = "AttributeError" -> "Exception"
      [] cls = "RuntimeError" -> "Exception"
      [] cls = "BrainError" -> "Exception"
      [] OTHER -> "BaseException"

RECURSIVE IsSubclass(_, _)
IsSubclass(cls, base) ==
    IF cls = base THEN TRUE
    ELSE IF cls = "BaseException" THEN FALSE
    ELSE IsSubclass(BaseOf(cls), base)

\* An exception value; msg is the sequence of the fragments of str(e).
Exc(cls, msg) == [type |-> cls, msg |-> msg]
IsInstance(e, cls) == IsSubclass(e.type, cls)

\* str(x) of an exception or of None, as fragments
str(x) == IF x.type = "NoneType" THEN <<"None">> ELSE x.msg

\* class BrainError(Exception)
BrainError(msg) == Exc("BrainError", msg)

\* ------------------------------------------------------------------- JSON
\* A JSON text is a sequence of tokens (lexing is not modelled).
TLBrace == [tok |-> "{"]
TRBrace == [tok |-> "}"]
TLBracket == [tok |-> "["]
TRBracket == [tok |-> "]"]
TColon == [tok |-> ":"]
TComma == [tok |-> ","]
TNull == [tok |-> "null"]
TStr(s) == [tok |-> "str", str |-> s]
TInt(n) == [tok |-> "int", int |-> n]
TJunk == [tok |-> "junk"]

PFail(i) == [ok |-> FALSE, pos |-> i]
POk(v, i) == [ok |-> TRUE, val |-> v, pos |-> i]

RECURSIVE ParseValue(_, _), ParseMembers(_, _, _), ParseElements(_, _, _)

\* members of an object after "{" or ",":  string ":" value ("," ... | "}")
ParseMembers(toks, i, acc) ==
    IF i + 1 > Len(toks) \/ toks[i].tok # "str" \/ toks[i + 1].tok # ":"
    THEN PFail(i)
    ELSE LET v == ParseValue(toks, i + 2) IN
         IF ~v.ok THEN v
         ELSE LET acc2 == DictSet(acc, toks[i].str, v.val)
                  j == v.pos
              IN  IF j > Len(toks) THEN PFail(j)
                  ELSE IF toks[j].tok = "}" THEN POk(PyDict(acc2), j + 1)
                  ELSE IF toks[j].tok = "," THEN ParseMembers(toks, j + 1, acc2)
                  ELSE PFail(j)

\* elements of an array after "[" or ",":  value ("," ... | "]")
ParseElements(toks, i, acc) ==
    LET v == ParseValue(toks, i) IN
    IF ~v.ok THEN v
    ELSE LET acc2 == Append(acc, v.val)
             j == v.pos
         IN  IF j > Len(toks) THEN PFail(j)
             ELSE IF toks[j].tok = "]" THEN POk(PyList(acc2), j + 1)
             ELSE IF toks[j].tok = "," THEN ParseElements(toks, j + 1, acc2)
             ELSE PFail(j)

ParseValue(toks, i) ==
    IF i > Len(toks) THEN PFail(i)
    ELSE LET t == toks[i] IN
         CASE t.tok = "str" -> POk(PyStr(t.str), i + 1)
           [] t.tok = "int" -> POk(PyInt(t.int), i + 1)
           [] t.tok = "null" -> POk(None, i + 1)
           [] t.tok = "{" ->
                IF i + 1 <= Len(toks) /\ toks[i + 1].tok = "}"
                THEN POk(EmptyDict, i + 2)
                ELSE ParseMembers(toks, i + 1, <<>>)
           [] t.tok = "[" ->
                IF i + 1 <= Len(toks) /\ toks[i + 1].tok = "]"
                THEN POk(PyList(<<>>), i + 2)
                ELSE ParseElements(toks, i + 1, <<>>)
           [] OTHER -> PFail(i)

\* A Python str holding JSON text
JsonText(toks) == [type |-> "str", toks |-> toks]

\* json.loads(s): the decoded value, or the exception it raises
\* (JSONDecodeError for a str that is not one JSON value, TypeError for an
\* argument that is not a str).
JsonLoads(s) ==
    IF s.type # "str"
    THEN [ok |-> FALSE,
          exc |-> Exc("TypeError", <<"the JSON object must be str, bytes or bytearray, not ", s.type>>)]
    ELSE LET p == ParseValue(s.toks, 1) IN
         IF ~p.ok
         THEN [ok |-> FALSE, exc |-> Exc("JSONDecodeError", <<"Expecting value: char ", ToString(p.pos)>>)]
         ELSE IF p.pos <= Len(s.toks)
         THEN [ok |-> FALSE, exc |-> Exc("JSONDecodeError", <<"Extra data: char ", ToString(p.pos)>>)]
         ELSE [ok |-> TRUE, val |-> p.val]

\* json.dumps(v), the encoder that produces the payloads the gateway sends
KeyOrder == <<"a", "b", "q">>
RECURSIVE JsonDumps(_), DumpMembers(_, _), DumpElements(_, _)
DumpMembers(d, ks) ==
    IF ks = <<>> THEN <<>>
    ELSE <<TStr(Head(ks)), TColon>> \o JsonDumps(d[Head(ks)])
         \o (IF Tail(ks) = <<>> THEN <<>> ELSE <<TComma>> \o DumpMembers(d, Tail(ks)))
DumpElements(xs, i) ==
    IF i > Len(xs) THEN <<>>
    ELSE JsonDumps(xs[i])
         \o (IF i = Len(xs) THEN <<>> ELSE <<TComma>> \o DumpElements(xs, i + 1))
JsonDumps(v) ==
    CASE v.type = "NoneType" -> <<TNull>>
      [] v.type = "str" -> <<TStr(v.str)>>
      [] v.type = "int" -> <<TInt(v.int)>>
      [] v.type = "list" -> <<TLBracket>> \o DumpElements(v.list, 1) \o <<TRBracket>>
      [] v.type = "dict" ->
           <<TLBrace>>
           \o DumpMembers(v.dict, SelectSeq(KeyOrder, LAMBDA k : k \in DOMAIN v.dict))
           \o <<TRBrace>>


\* ------------------------------------------------- gateway responses (stub)
Usage(p, c, t) == [type |-> "Usage", prompt_tokens |-> p, completion_tokens |-> c, total_tokens |-> t]
ToolCall(id, name, arguments) == [id |-> id, function |-> [name |-> name, arguments |-> arguments]]
Choice(content, tool_calls) == [message |-> [content |-> content, tool_calls |-> tool_calls]]
Response(choices, model, usage) == [type |-> "ChatCompletion", choices |-> choices, model |-> model, usage |-> usage]

\* Decoded argument values, and the payloads the stub sends.
ObjectValues ==
    { EmptyDict,
      PyDict([k \in {"a"} |-> PyInt(1)]),
      PyDict([k \in {"a", "q"} |->
                 IF k = "a" THEN PyDict([j \in {"b"} |-> PyList(<<PyInt(1), PyStr("x")>>)])
                 ELSE None]) }
NonObjectValues == { PyList(<<PyInt(1)>>), None }
ValidPayloads == { JsonText(JsonDumps(v)) : v \in ObjectValues \cup NonObjectValues }
InvalidPayloads ==
    { JsonText(<<TLBrace, TJunk, TJunk>>),
      JsonText(<<TLBrace, TStr("a"), TColon, TInt(1)>>) }
NonStrPayloads == { None }
Payloads == ValidPayloads \cup InvalidPayloads \cup NonStrPayloads

ToolCalls ==
    { ToolCall(h[1], h[2], p) :
        h \in {<<"call_1", "get_weather">>, <<"call_2", "get_time">>}, p \in Payloads }
ToolCallLists == UNION { [1..n -> ToolCalls] : n \in 0..MaxToolCalls }

RequestModel == "anthropic/claude-3.5-sonnet"
ResponseModels == { RequestModel, "openai/gpt-4o" }
Contents == { None, PyStr("Hello! How can I help you?") }

\* Every response the stub of SpecParse can return: well formed ones, and the
\* two shapes that have no choices[0] or no usage.
WellFormedResponses ==
    { Response(<<Choice(c, t)>>, m, Usage(10, 8, 18)) :
        c \in Contents,
        t \in {None} \cup { PyList(l) : l \in ToolCallLists },
        m \in ResponseModels }
MalformedResponses ==
    { Response(<<>>, RequestModel, Usage(10, 8, 18)),
      Response(<<Choice(PyStr("Hello! How can I help you?"), None)>>, RequestModel, None) }
AllResponses == WellFormedResponses \cup MalformedResponses

\* The responses the stub of Spec returns (the retry loop does not look into them).
TextResponse == Response(<<Choice(PyStr("Hello! How can I help you?"), None)>>, RequestModel, Usage(10, 8, 18))
ToolResponse ==
    Response(<<Choice(None, PyList(<<
                 ToolCall("call_1", "get_weather", JsonText(JsonDumps(PyDict([k \in {"a"} |-> PyInt(1)])))),
                 ToolCall("call_2", "get_time", JsonText(<<TLBrace, TJunk, TJunk>>)) >>))>>,
             "openai/gpt-4o", Usage(10, 8, 18))
FewResponses == { TextResponse, ToolResponse, Response(<<>>, RequestModel, Usage(10, 8, 18)) }

\* What the gateway stub raises: transient errors (openai.APIError and two of
\* its subclasses) and others.
TransientErrors ==
    { Exc("RateLimitError", <<"Rate limit exceeded">>),
      Exc("APIError", <<"API temporarily unavailable">>),
      Exc("APIConnectionError", <<"Connection error.">>) }
OtherErrors == { Exc("ValueError", <<"Invalid request">>), Exc("RuntimeError", <<"boom">>) }
GatewayErrors == TransientErrors \cup OtherErrors

\* ------------------------------------------------- Brain._parse_response
Raise(x) == [ok |-> FALSE, exc |-> x]
Ok(v) == [ok |-> TRUE, val |-> v]

\* Mutant of ParseToolCall: no "except json.JSONDecodeError".
ParseToolCall_NoRecovery(tool_call) ==
    LET arguments == JsonLoads(tool_call.function.arguments) IN
    IF arguments.ok
    THEN Ok([id |-> tool_call.id, name |-> tool_call.function.name, arguments |-> arguments.val])
    ELSE Raise(arguments.exc)

\* Mutant of ParseToolCall: "except Exception" in place of
\* "except json.JSONDecodeError".
ParseToolCall_RecoverAll(tool_call) ==
    LET arguments == JsonLoads(tool_call.function.arguments) IN
    IF arguments.ok
    THEN Ok([id |-> tool_call.id, name |-> tool_call.function.name, arguments |-> arguments.val])
    ELSE Ok([id |-> tool_call.id, name |-> tool_call.function.name, arguments |-> EmptyDict,
             error |-> <<"Failed to parse arguments: ">> \o str(arguments.exc)])

\* One iteration of "for tool_call in message.tool_calls": the entry appended,
\* or the exception that json.loads raises and the handler does not catch.
ParseToolCall(tool_call) ==
    LET arguments == JsonLoads(tool_call.function.arguments) IN
    IF arguments.ok
    THEN Ok([id |-> tool_call.id, name |-> tool_call.function.name, arguments |-> arguments.val])
    ELSE IF IsInstance(arguments.exc, "JSONDecodeError")
    THEN Ok([id |-> tool_call.id, name |-> tool_call.function.name, arguments |-> EmptyDict,
             error |-> <<"Failed to parse arguments: ">> \o str(arguments.exc)])
    ELSE Raise(arguments.exc)

\* Mutant of ParseToolCalls: entries are put in front of the list.
RECURSIVE ParseToolCalls_Reversed(_, _, _)
ParseToolCalls_Reversed(tool_calls, i, acc) ==
    IF i > Len(tool_calls) THEN Ok(acc)
    ELSE LET entry == ParseToolCall(tool_calls[i]) IN
         IF entry.ok THEN ParseToolCalls_Reversed(tool_calls, i + 1, <<entry.val>> \o acc)
         ELSE entry

\* "for tool_call in message.tool_calls:" from the i-th on, acc the entries so far
RECURSIVE ParseToolCalls(_, _, _)
ParseToolCalls(tool_calls, i, acc) ==
    IF i > Len(tool_calls) THEN Ok(acc)
    ELSE LET entry == ParseToolCall(tool_calls[i]) IN
         IF entry.ok THEN ParseToolCalls(tool_calls, i + 1, Append(acc, entry.val))
         ELSE entry

\* Mutant of HasToolCalls: "if message.tool_calls is not None:"
HasToolCalls_NotNone(message) == message.tool_calls # None

\* "if message.tool_calls:"
HasToolCalls(message) == Truthy(message.tool_calls)

\* Mutant of parse_response: the model of the result is the one asked for.
parse_response_EchoRequest(resp) ==
    IF Len(resp.choices) = 0 THEN Raise(Exc("IndexError", <<"list index out of range">>))
    ELSE IF resp.usage.type = "NoneType"
    THEN Raise(Exc("AttributeError", <<"'NoneType' object has no attribute 'prompt_tokens'">>))
    ELSE
    LET message == resp.choices[1].message
        res == [content |-> message.content,
                tool_calls |-> None,
                model |-> RequestModel,
                usage |-> [prompt_tokens |-> resp.usage.prompt_tokens,
                           completion_tokens |-> resp.usage.completion_tokens,
                           total_tokens |-> resp.usage.total_tokens]]
    IN  IF HasToolCalls(message)
        THEN LET parsed == ParseToolCalls(message.tool_calls.list, 1, <<>>) IN
             IF parsed.ok THEN Ok([res EXCEPT !.tool_calls = PyList(parsed.val)])
             ELSE parsed
        ELSE Ok(res)

parse_response(resp) ==
    IF Len(resp.choices) = 0 THEN Raise(Exc("IndexError", <<"list index out of range">>))
    ELSE IF resp.usage.type = "NoneType"
    THEN Raise(Exc("AttributeError", <<"'NoneType' object has no attribute 'prompt_tokens'">>))
    ELSE
    LET message == resp.choices[1].message
        res == [content |-> message.content,
                tool_calls |-> None,
                model |-> resp.model,
                usage |-> [prompt_tokens |-> resp.usage.prompt_tokens,
                           completion_tokens |-> resp.usage.completion_tokens,
                           total_tokens |-> resp.usage.total_tokens]]
    IN  IF HasToolCalls(message)
        THEN LET parsed == ParseToolCalls(message.tool_calls.list, 1, <<>>) IN
             IF parsed.ok THEN Ok([res EXCEPT !.tool_calls = PyList(parsed.val)])
             ELSE parsed
        ELSE Ok(res)

\* ------------------------------------------------------------------ state
VARIABLES
    env,               \* os.environ: OPENROUTER_API_KEY, LANGFUSE_PUBLIC_KEY, LANGFUSE_SECRET_KEY, LANGFUSE_HOST
    langfuse_client,   \* observability._langfuse_client
    constructed,       \* number of Langfuse clients constructed so far
    generations,       \* number of generation objects the clients have started so far
    api_key,           \* Brain.api_key
    client,            \* Brain.client
    max_retries,       \* Brain.max_retries
    retry_delay,       \* Brain.retry_delay
    pc,                \* where the running call of Brain.complete stands
    args,              \* arguments of complete: model, messages, temperature, max_tokens, tools
    track_generation,  \* argument of complete
    call_kwargs,       \* local of complete
    generation,        \* local of complete
    last_error,        \* local of complete
    attempt,           \* loop variable of complete
    e,                 \* the exception being handled
    response,          \* local of complete
    result,            \* local of complete
    outcome,           \* how the call ended: None, a returned value or a raised exception
    log,               \* the calls the stubs received during this call of complete, in order
    calls,             \* number of calls of complete started
    current,           \* the thread that is running
    saved,             \* the locals of the threads that are not running
    getter,            \* per thread: where its call of get_langfuse_client stands
    clock,             \* datetime.now()
    message,           \* core/schema.py: a constructed message
    mapping,           \* its serialisation
    rebuilt,           \* the message reconstructed from the serialisation
    conversations      \* core/schema.py: the ConversationThread objects constructed, in order

vars == <<env, langfuse_client, constructed, generations, api_key, client, max_retries, retry_delay, pc,
          args, track_generation, call_kwargs, generation, last_error, attempt, e, response,
          result, outcome, log, calls, current, saved, getter, clock, message, mapping, rebuilt,
          conversations>>

brain == <<api_key, client, max_retries, retry_delay>>
locals == <<args, track_generation, call_kwargs, generation, last_error, attempt, e, response, result>>
\* what no step of Brain.complete touches
outside == <<current, saved, getter, clock, message, mapping, rebuilt, conversations>>

\* ------------------------------------------------ core/observability.py
Getenv(environ, name, default) == IF environ[name].type = "NoneType" THEN default ELSE environ[name]

DefaultHost == PyStr("https://cloud.langfuse.com")

\* Langfuse(public_key=..., secret_key=..., host=...): the n-th client constructed
Langfuse(n, public_key, secret_key, host) ==
    [type |-> "Langfuse", id |-> n, public_key |-> public_key, secret_key |-> secret_key, host |-> host]

\* Mutant of init_langfuse_client: the secret key is looked at first.
init_langfuse_client_SecretFirst(environ, n) ==
    LET public_key == Getenv(environ, "LANGFUSE_PUBLIC_KEY", None)
        secret_key == Getenv(environ, "LANGFUSE_SECRET_KEY", None)
        host == Getenv(environ, "LANGFUSE_HOST", DefaultHost)
    IN  IF ~Truthy(secret_key)
        THEN [ok |-> FALSE, exc |-> Exc("ValueError", <<"LANGFUSE_SECRET_KEY", " environment variable is required">>)]
        ELSE IF ~Truthy(public_key)
        THEN [ok |-> FALSE, exc |-> Exc("ValueError", <<"LANGFUSE_PUBLIC_KEY", " environment variable is required">>)]
        ELSE [ok |-> TRUE, val |-> Langfuse(n, public_key, secret_key, host)]

\* init_langfuse_client(): the client constructed (the n-th of the process), or
\* the ValueError raised
init_langfuse_client(environ, n) ==
    LET public_key == Getenv(environ, "LANGFUSE_PUBLIC_KEY", None)
        secret_key == Getenv(environ, "LANGFUSE_SECRET_KEY", None)
        host == Getenv(environ, "LANGFUSE_HOST", DefaultHost)
    IN  IF ~Truthy(public_key)
        THEN Raise(Exc("ValueError", <<"LANGFUSE_PUBLIC_KEY", " environment variable is required">>))
        ELSE IF ~Truthy(secret_key)
        THEN Raise(Exc("ValueError", <<"LANGFUSE_SECRET_KEY", " environment variable is required">>))
        ELSE Ok(Langfuse(n, public_key, secret_key, host))

\* Mutant of get_langfuse_client: the cached instance is not looked at.
get_langfuse_client_NoCache(global, environ, n) ==
    LET made == init_langfuse_client(environ, n) IN
    IF made.ok THEN [ok |-> TRUE, val |-> made.val, global |-> made.val, constructed |-> TRUE]
    ELSE [ok |-> FALSE, exc |-> made.exc, global |-> global, constructed |-> FALSE]

\* Mutant of get_langfuse_client: a failed initialisation is remembered.
get_langfuse_client_CacheFailure(global, environ, n) ==
    IF global = None
    THEN LET made == init_langfuse_client(environ, n) IN
         IF made.ok THEN [ok |-> TRUE, val |-> made.val, global |-> made.val, constructed |-> TRUE]
         ELSE [ok |-> FALSE, exc |-> made.exc, global |-> made.exc, constructed |-> FALSE]
    ELSE [ok |-> TRUE, val |-> global, global |-> global, constructed |-> FALSE]

\* get_langfuse_client(): the value returned (or the exception), the new value
\* of the global, and whether a client was constructed
get_langfuse_client(global, environ, n) ==
    IF global = None
    THEN LET made == init_langfuse_client(environ, n) IN
         IF made.ok THEN [ok |-> TRUE, val |-> made.val, global |-> made.val, constructed |-> TRUE]
         ELSE [ok |-> FALSE, exc |-> made.exc, global |-> global, constructed |-> FALSE]
    ELSE [ok |-> TRUE, val |-> global, global |-> global, constructed |-> FALSE]

\* What a failing call into the Langfuse client raises.
TelemetryError == Exc("RuntimeError", <<"langfuse unavailable">>)

\* The generation object that client.start_generation returns: the n-th started.
Generation(n) == [type |-> "Generation", id |-> n]

\* Mutant of update_kwargs: values not supplied are sent as None.
update_kwargs_Placeholders(output_data, usage, metadata) ==
    [output |-> output_data, usage_details |-> usage, metadata |-> metadata]

\* update_generation(generation, output_data, usage, metadata): the keyword
\* arguments generation.update is called with
update_kwargs(output_data, usage, metadata) ==
    LET k1 == [x \in {"output"} |-> output_data]
        k2 == IF Truthy(usage) THEN DictSet(k1, "usage_details", usage) ELSE k1
        k3 == IF Truthy(metadata) THEN DictSet(k2, "metadata", metadata) ELSE k2
    IN  k3

\* The entries of log.
EvInit(raised) == [op |-> "init_langfuse_client", raised |-> raised]
EvCreate(gen, raised) == [op |-> "create_generation", generation |-> gen, raised |-> raised]
EvUpdate(gen, kwargs, raised) == [op |-> "update_generation", generation |-> gen, kwargs |-> kwargs, raised |-> raised]
EvEnd(gen, raised) == [op |-> "end_generation", generation |-> gen, raised |-> raised]
EvGateway(n, raised, value) == [op |-> "gateway", attempt |-> n, raised |-> raised, value |-> value]
EvSleep(secs) == [op |-> "sleep", secs |-> secs]

\* ------------------------------------------------------- Brain.__init__
DefaultBaseUrl == PyStr("https://openrouter.ai/api/v1")

\* OpenAI(api_key=..., base_url=...)
OpenAI(key, url) == [type |-> "OpenAI", api_key |-> key, base_url |-> url]

\* "a or b"
Or(a, b) == IF Truthy(a) THEN a ELSE b

\* Mutant of Brain_init: the environment is looked at before the argument.
Brain_init_EnvFirst(api_key_arg, base_url, maxr, delay, environ) ==
    LET key == Or(Getenv(environ, "OPENROUTER_API_KEY", None), api_key_arg) IN
    IF ~Truthy(key)
    THEN [ok |-> FALSE, exc |-> Exc("ValueError", <<"OPENROUTER_API_KEY", " not found. Set it in .env file or pass as argument.">>)]
    ELSE [ok |-> TRUE, val |-> [api_key |-> key, base_url |-> base_url, max_retries |-> maxr,
                               retry_delay |-> delay, client |-> OpenAI(key, base_url)]]

\* Brain(api_key, base_url, max_retries, retry_delay): the fields of the object
\* constructed, or the ValueError raised
Brain_init(api_key_arg, base_url, maxr, delay, environ) ==
    LET key == Or(api_key_arg, Getenv(environ, "OPENROUTER_API_KEY", None)) IN
    IF ~Truthy(key)
    THEN Raise(Exc("ValueError", <<"OPENROUTER_API_KEY", " not found. Set it in .env file or pass as argument.">>))
    ELSE Ok([api_key |-> key, base_url |-> base_url, max_retries |-> maxr,
             retry_delay |-> delay, client |-> OpenAI(key, base_url)])

\* ------------------------------------------------------------------- Init
Envs ==
    { [OPENROUTER_API_KEY |-> PyStr("sk-or"), LANGFUSE_PUBLIC_KEY |-> pk,
       LANGFUSE_SECRET_KEY |-> sk, LANGFUSE_HOST |-> None] :
        pk \in {None, PyStr("pk-lf")}, sk \in {PyStr("sk-lf")} }
    \cup { [OPENROUTER_API_KEY |-> PyStr("sk-or"), LANGFUSE_PUBLIC_KEY |-> PyStr("pk-lf"),
             LANGFUSE_SECRET_KEY |-> None, LANGFUSE_HOST |-> None] }

\* No thread but the main one, no call of get_langfuse_client under way, no
\* message constructed.
Quiet ==
    /\ current = 1
    /\ saved = <<>>
    /\ getter = <<>>
    /\ clock = 0
    /\ message = None
    /\ mapping = None
    /\ rebuilt = None
    /\ conversations = <<>>

NoCall ==
    /\ pc = "idle"
    /\ args = None
    /\ track_generation = FALSE
    /\ call_kwargs = None
    /\ generation = None
    /\ last_error = None
    /\ attempt = 0
    /\ e = None
    /\ response = None
    /\ result = None
    /\ outcome = None
    /\ log = <<>>

\* Brain.__init__ has run; no call of complete has started.
Init ==
    /\ env \in Envs
    /\ langfuse_client = None
    /\ constructed = 0
    /\ generations = 0
    /\ \E maxr \in {-1} \cup (0..MaxRetries), delay \in 0..MaxRetryDelay :
         LET self == Brain_init(None, DefaultBaseUrl, maxr, delay, env).val IN
         /\ api_key = self.api_key
         /\ client = self.client
         /\ max_retries = self.max_retries
         /\ retry_delay = self.retry_delay
    /\ calls = 0
    /\ NoCall
    /\ Quiet

\* ------------------------------------------------------- Brain.complete
ConditionTrack == track_generation /\ Truthy(generation)

\* Mutant of FirstStep: the flag is not looked at.
FirstStep_AlwaysTrack(track) == "create_generation"

\* "generation = None; if track_generation: generation = create_generation(...)"
FirstStep(track) == IF track THEN "create_generation" ELSE "for"

\* The arguments of complete that go into the request.
Args(model, messages, temperature, max_tokens, tools) ==
    [model |-> model, messages |-> messages, temperature |-> temperature,
     max_tokens |-> max_tokens, tools |-> tools]

HelloMessages == PyList(<<PyDict([role |-> PyStr("user"), content |-> PyStr("Hello")])>>)
SearchTool == PyDict([type |-> PyStr("function"), name |-> PyStr("search")])

\* complete(messages, model) with the defaults of the other parameters
DefaultArgs == Args(PyStr(RequestModel), HelloMessages, PyFloat(7), None, None)

\* calls with a temperature, with and without max_tokens and tools
AllArgs ==
    { Args(PyStr(RequestModel), HelloMessages, t, mt, tl) :
        t \in {PyFloat(0), PyFloat(7), PyFloat(8)},
        mt \in {None, PyInt(0), PyInt(500)},
        tl \in {None, PyList(<<>>), PyList(<<SearchTool>>)} }

\* The call_kwargs that complete builds from its arguments.
CallKwargs(a) ==
    LET k1 == [model |-> a.model, messages |-> a.messages, temperature |-> a.temperature]
        k2 == IF Truthy(a.max_tokens) THEN DictSet(k1, "max_tokens", a.max_tokens) ELSE k1
        k3 == IF Truthy(a.tools) THEN DictSet(k2, "tools", a.tools) ELSE k2
    IN  PyDict(k3)

\* The caller enters complete(messages, model, tools, temperature, max_tokens,
\* track_generation).
Complete(argsets) ==
    /\ pc = "idle"
    /\ calls < MaxCalls
    /\ calls' = calls + 1
    /\ args' \in argsets
    /\ \E t \in BOOLEAN :
         /\ track_generation' = t
         /\ pc' = FirstStep(t)
    /\ generation' = None
    /\ last_error' = None
    /\ attempt' = 0
    /\ UNCHANGED <<env, langfuse_client, brain, constructed, generations, outside, call_kwargs, e, response, result,
                   outcome, log>>

\* generation = observability.create_generation(...): get_langfuse_client(),
\* then client.start_generation(...), which returns (ok) or raises.
CreateGeneration(outs) ==
    /\ pc = "create_generation"
    /\ LET got == get_langfuse_client(langfuse_client, env, constructed + 1)
           log1 == IF langfuse_client = None THEN Append(log, EvInit(~got.ok)) ELSE log
       IN  /\ langfuse_client' = got.global
           /\ constructed' = IF got.constructed THEN constructed + 1 ELSE constructed
           /\ IF ~got.ok
              THEN /\ outcome' = [type |-> "raise", exc |-> got.exc]
                   /\ log' = log1
                   /\ pc' = "done"
                   /\ UNCHANGED <<generation, generations>>
              ELSE \E ok \in outs :
                     IF ok
                     THEN /\ generation' = Generation(generations + 1)
                          /\ generations' = generations + 1
                          /\ log' = Append(log1, EvCreate(Generation(generations + 1), FALSE))
                          /\ pc' = "for"
                          /\ UNCHANGED outcome
                     ELSE /\ outcome' = [type |-> "raise", exc |-> TelemetryError]
                          /\ log' = Append(log1, EvCreate(None, TRUE))
                          /\ pc' = "done"
                          /\ UNCHANGED <<generation, generations>>
    /\ UNCHANGED <<env, brain, outside, args, call_kwargs, track_generation, last_error, attempt,
                   e, response, result, calls>>

\* Mutant of InRange: the loop body runs at least once.
InRange_AtLeastOnce(i, n) == i < n \/ i = 0

\* for attempt in range(self.max_retries)
InRange(i, n) == i < n
For ==
    /\ pc = "for"
    /\ pc' = IF InRange(attempt, max_retries) THEN "call" ELSE "after_loop"
    /\ UNCHANGED <<env, langfuse_client, brain, constructed, generations, outside, locals, outcome, log, calls>>

\* response = self.client.chat.completions.create(**call_kwargs) returns
GatewayReturns(responses) ==
    /\ pc = "call"
    /\ \E r \in responses :
         /\ response' = r
         /\ log' = Append(log, EvGateway(attempt + 1, FALSE, r))
    /\ call_kwargs' = CallKwargs(args)
    /\ pc' = "parse"
    /\ UNCHANGED <<env, langfuse_client, brain, constructed, generations, outside, args, track_generation, generation,
                   last_error, attempt, e, result, outcome, calls>>

\* self.client.chat.completions.create(**call_kwargs) raises
GatewayRaises(errors) ==
    /\ pc = "call"
    /\ \E x \in errors :
         /\ e' = x
         /\ log' = Append(log, EvGateway(attempt + 1, TRUE, x))
    /\ call_kwargs' = CallKwargs(args)
    /\ pc' = "except"
    /\ UNCHANGED <<env, langfuse_client, brain, constructed, generations, outside, args, track_generation, generation,
                   last_error, attempt, response, result, outcome, calls>>

\* result = self._parse_response(response)
ParseResponse ==
    /\ pc = "parse"
    /\ LET parsed == parse_response(response) IN
       IF parsed.ok
       THEN /\ result' = parsed.val
            /\ pc' = IF ConditionTrack THEN "update_generation" ELSE "return"
            /\ UNCHANGED e
       ELSE /\ e' = parsed.exc
            /\ pc' = "except"
            /\ UNCHANGED result
    /\ UNCHANGED <<env, langfuse_client, brain, constructed, generations, outside, args, call_kwargs, track_generation, generation, last_error,
                   attempt, response, outcome, log, calls>>

\* Mutant of UpdateArgs: the usage is not passed on.
UpdateArgs_NoUsage(res) == update_kwargs(res, None, None)

\* observability.update_generation(generation=..., output_data=result, usage={...})
UpdateArgs(res) ==
    update_kwargs(res,
                  PyDict([k \in {"prompt_tokens", "completion_tokens", "total_tokens"} |->
                             PyInt(res.usage[k])]),
                  None)
\* Mutant of UpdateGeneration: a failing update is logged and ignored.
UpdateGeneration_BestEffort(outs) ==
    /\ pc = "update_generation"
    /\ \E ok \in outs :
         /\ log' = Append(log, EvUpdate(generation, UpdateArgs(result), ~ok))
         /\ pc' = "end_generation"
         /\ UNCHANGED e
    /\ UNCHANGED <<env, langfuse_client, brain, constructed, generations, outside, args, call_kwargs, track_generation, generation, last_error,
                   attempt, response, result, outcome, calls>>

UpdateGeneration(outs) ==
    /\ pc = "update_generation"
    /\ \E ok \in outs :
         /\ log' = Append(log, EvUpdate(generation, UpdateArgs(result), ~ok))
         /\ IF ok THEN pc' = "end_generation" /\ UNCHANGED e
            ELSE pc' = "except" /\ e' = TelemetryError
    /\ UNCHANGED <<env, langfuse_client, brain, constructed, generations, outside, args, call_kwargs, track_generation, generation, last_error,
                   attempt, response, result, outcome, calls>>

\* observability.end_generation(generation) after the update, inside the try
EndGeneration(outs) ==
    /\ pc = "end_generation"
    /\ \E ok \in outs :
         /\ log' = Append(log, EvEnd(generation, ~ok))
         /\ IF ok THEN pc' = "return" /\ UNCHANGED e
            ELSE pc' = "except" /\ e' = TelemetryError
    /\ UNCHANGED <<env, langfuse_client, brain, constructed, generations, outside, args, call_kwargs, track_generation, generation, last_error,
                   attempt, response, result, outcome, calls>>

\* return result
Return ==
    /\ pc = "return"
    /\ outcome' = [type |-> "return", value |-> result]
    /\ pc' = "done"
    /\ UNCHANGED <<env, langfuse_client, brain, constructed, generations, outside, locals, log, calls>>

\* Mutants of IsTransient: "except openai.RateLimitError", "except Exception" first.
IsTransient_RateLimitOnly(x) == IsInstance(x, "RateLimitError")
IsTransient_Everything(x) == IsInstance(x, "Exception")

\* The except clause that takes the exception raised in the try block.
IsTransient(x) == IsInstance(x, "RateLimitError") \/ IsInstance(x, "APIError")
\* Mutant of MoreAttempts: gives up one attempt early.
MoreAttempts_OneShort(i, n) == i < n - 2
\* Mutant of MoreAttempts: the last attempt is followed by a wait as well.
MoreAttempts_OneMore(i, n) == i < n
MoreAttempts(i, n) == i < n - 1
Except ==
    /\ pc = "except"
    /\ IF IsTransient(e)
       THEN /\ last_error' = e
            /\ pc' = IF MoreAttempts(attempt, max_retries) THEN "sleep" ELSE "max_retries_exceeded"
       ELSE /\ pc' = "unrecoverable"
            /\ UNCHANGED last_error
    /\ UNCHANGED <<env, langfuse_client, brain, constructed, generations, outside, args, call_kwargs, track_generation, generation, attempt, e,
                   response, result, outcome, log, calls>>

\* Mutant of Backoff: the zero-based attempt index as the factor.
Backoff_ZeroBased(delay, i) == delay * i

\* time.sleep(self.retry_delay * (attempt + 1)); continue
Backoff(delay, i) == delay * (i + 1)

\* Mutant of Sleep: a tracked call opens a record for the next attempt.
Sleep_Reopen ==
    /\ pc = "sleep"
    /\ log' = Append(log, EvSleep(Backoff(retry_delay, attempt)))
    /\ attempt' = attempt + 1
    /\ pc' = FirstStep(track_generation)
    /\ UNCHANGED <<env, langfuse_client, brain, constructed, generations, outside, args, call_kwargs, track_generation, generation, last_error, e,
                   response, result, outcome, calls>>

Sleep ==
    /\ pc = "sleep"
    /\ log' = Append(log, EvSleep(Backoff(retry_delay, attempt)))
    /\ attempt' = attempt + 1
    /\ pc' = "for"
    /\ UNCHANGED <<env, langfuse_client, brain, constructed, generations, outside, args, call_kwargs, track_generation, generation, last_error, e,
                   response, result, outcome, calls>>

\* "if track_generation and generation: observability.end_generation(generation)"
\* in an except clause or after the loop, followed by the raise at `next`.
\* An exception of end_generation leaves complete as it is.
Cleanup(next, outs) ==
    /\ IF ConditionTrack
       THEN \E ok \in outs :
              /\ log' = Append(log, EvEnd(generation, ~ok))
              /\ IF ok THEN pc' = next /\ UNCHANGED outcome
                 ELSE pc' = "done" /\ outcome' = [type |-> "raise", exc |-> TelemetryError]
       ELSE /\ pc' = next
            /\ UNCHANGED <<log, outcome>>
    /\ UNCHANGED <<env, langfuse_client, brain, constructed, generations, outside, locals, calls>>

\* Mutant of RaiseBrainError: the exception caught is raised again unwrapped.
RaiseBrainError_Reraise(msg) ==
    /\ outcome' = [type |-> "raise", exc |-> e]
    /\ pc' = "done"
    /\ UNCHANGED <<env, langfuse_client, brain, constructed, generations, outside, locals, log, calls>>

\* raise BrainError(msg)
RaiseBrainError(msg) ==
    /\ outcome' = [type |-> "raise", exc |-> BrainError(msg)]
    /\ pc' = "done"
    /\ UNCHANGED <<env, langfuse_client, brain, constructed, generations, outside, locals, log, calls>>

\* except (openai.RateLimitError, openai.APIError), last attempt
MaxRetriesCleanup(outs) ==
    /\ pc = "max_retries_exceeded"
    /\ Cleanup("raise_max_retries", outs)
MaxRetriesMessage == <<"Max retries (", ToString(max_retries), ") exceeded. Last error: ">> \o str(e)
RaiseMaxRetries ==
    /\ pc = "raise_max_retries"
    /\ RaiseBrainError(MaxRetriesMessage)

\* except Exception
UnrecoverableCleanup(outs) ==
    /\ pc = "unrecoverable"
    /\ Cleanup("raise_unrecoverable", outs)
UnrecoverableMessage == <<"LLM call failed: ">> \o str(e)
RaiseUnrecoverable ==
    /\ pc = "raise_unrecoverable"
    /\ RaiseBrainError(UnrecoverableMessage)

\* after the loop
AfterLoopCleanup(outs) ==
    /\ pc = "after_loop"
    /\ Cleanup("raise_after_loop", outs)
AfterLoopMessage == <<"Max retries exceeded. Last error: ">> \o str(last_error)
RaiseAfterLoop ==
    /\ pc = "raise_after_loop"
    /\ RaiseBrainError(AfterLoopMessage)

\* The caller has the outcome; the locals of the call are gone.
Finish ==
    /\ pc = "done"
    /\ pc' = "idle"
    /\ track_generation' = FALSE
    /\ generation' = None
    /\ last_error' = None
    /\ attempt' = 0
    /\ e' = None
    /\ response' = None
    /\ result' = None
    /\ outcome' = None
    /\ log' = <<>>
    /\ args' = None
    /\ call_kwargs' = None
    /\ UNCHANGED <<env, langfuse_client, brain, constructed, generations, outside, calls>>

Next ==
    \/ Complete({DefaultArgs})
    \/ CreateGeneration(BOOLEAN)
    \/ For
    \/ GatewayReturns(FewResponses)
    \/ GatewayRaises(GatewayErrors)
    \/ ParseResponse
    \/ UpdateGeneration(BOOLEAN)
    \/ EndGeneration(BOOLEAN)
    \/ Return
    \/ Except
    \/ Sleep
    \/ MaxRetriesCleanup(BOOLEAN)
    \/ RaiseMaxRetries
    \/ UnrecoverableCleanup(BOOLEAN)
    \/ RaiseUnrecoverable
    \/ AfterLoopCleanup(BOOLEAN)
    \/ RaiseAfterLoop
    \/ Finish

Spec == Init /\ [][Next]_vars

\* A step of the call that is running: every step but the caller's entry into
\* complete and its taking of the outcome.
Running ==
    \/ CreateGeneration(BOOLEAN)
    \/ For
    \/ GatewayReturns(FewResponses)
    \/ GatewayRaises(GatewayErrors)
    \/ ParseResponse
    \/ UpdateGeneration(BOOLEAN)
    \/ EndGeneration(BOOLEAN)
    \/ Return
    \/ Except
    \/ Sleep
    \/ MaxRetriesCleanup(BOOLEAN)
    \/ RaiseMaxRetries
    \/ UnrecoverableCleanup(BOOLEAN)
    \/ RaiseUnrecoverable
    \/ AfterLoopCleanup(BOOLEAN)
    \/ RaiseAfterLoop

\* Spec for a thread that keeps running and stubs that return or raise: a call
\* that can take a step takes one.
SpecLive == Init /\ [][Next]_vars /\ WF_vars(Running)

\* ------------------------------------------------------------- SpecParse
\* One call of complete against a gateway stub that returns any response of
\* AllResponses, with a configured and working Langfuse client.
FullEnv == [OPENROUTER_API_KEY |-> PyStr("sk-or"), LANGFUSE_PUBLIC_KEY |-> PyStr("pk-lf"),
            LANGFUSE_SECRET_KEY |-> PyStr("sk-lf"), LANGFUSE_HOST |-> None]

InitParse ==
    /\ env = FullEnv
    /\ langfuse_client = None
    /\ constructed = 0
    /\ generations = 0
    /\ LET self == Brain_init(None, DefaultBaseUrl, MaxRetries, MaxRetryDelay, env).val IN
         /\ api_key = self.api_key
         /\ client = self.client
         /\ max_retries = self.max_retries
         /\ retry_delay = self.retry_delay
    /\ calls = 0
    /\ NoCall
    /\ Quiet

NextParse ==
    \/ Complete({DefaultArgs})
    \/ CreateGeneration({TRUE})
    \/ For
    \/ GatewayReturns(AllResponses)
    \/ ParseResponse
    \/ UpdateGeneration({TRUE})
    \/ EndGeneration({TRUE})
    \/ Return
    \/ Except
    \/ UnrecoverableCleanup({TRUE})
    \/ RaiseUnrecoverable

SpecParse == InitParse /\ [][NextParse]_vars

\* ----------------------------------------------------------- SpecRequest
\* Calls of complete with every combination of AllArgs against a gateway stub
\* that answers, with a configured and working Langfuse client.
NextRequest ==
    \/ Complete(AllArgs)
    \/ CreateGeneration({TRUE})
    \/ For
    \/ GatewayReturns({TextResponse})
    \/ ParseResponse
    \/ UpdateGeneration({TRUE})
    \/ EndGeneration({TRUE})
    \/ Return
    \/ Finish

SpecRequest == InitParse /\ [][NextRequest]_vars

\* ------------------------------------------------------------- SpecSetup
\* The operations of the two modules called one after another by one thread:
\* Brain(...), init_langfuse_client(), get_langfuse_client(),
\* create_generation(...), verify_langfuse_connection(), flush_traces(), and
\* the assignments to os.environ and to _langfuse_client that the tests make.
\* log holds the one event of the operation that ran last.
Unset == None
Settings(value) == {Unset, PyStr(""), PyStr(value)}
SetupEnvs ==
    { [OPENROUTER_API_KEY |-> ok, LANGFUSE_PUBLIC_KEY |-> pk, LANGFUSE_SECRET_KEY |-> sk,
       LANGFUSE_HOST |-> h] :
        ok \in Settings("sk-or"), pk \in Settings("pk-lf"), sk \in Settings("sk-lf"),
        h \in {Unset, PyStr("https://us.cloud.langfuse.com")} }
ApiKeyArgs == Settings("sk-arg")

\* What client.auth_check() does: returns a value or raises.
AuthChecks ==
    { [raised |-> FALSE, value |-> v] : v \in {PyBool(TRUE), PyBool(FALSE), None, PyStr("ok"), PyInt(0)} }
    \cup { [raised |-> TRUE, value |-> TelemetryError] }

\* Mutant of verify_langfuse_connection: no try/except.
verify_langfuse_connection_Uncaught(global, environ, n, auth) ==
    LET got == get_langfuse_client(global, environ, n) IN
    IF ~got.ok
    THEN [ok |-> FALSE, exc |-> got.exc, global |-> got.global, constructed |-> FALSE, auth |-> None]
    ELSE IF auth.raised
    THEN [ok |-> FALSE, exc |-> auth.value, global |-> got.global, constructed |-> got.constructed, auth |-> auth]
    ELSE [ok |-> TRUE, val |-> PyBool(Truthy(auth.value)), global |-> got.global,
          constructed |-> got.constructed, auth |-> auth]

\* verify_langfuse_connection() when auth_check behaves as auth: the value
\* returned, the new value of the global, whether a client was constructed and
\* what auth_check did (None when it was not called)
verify_langfuse_connection(global, environ, n, auth) ==
    LET got == get_langfuse_client(global, environ, n) IN
    IF ~got.ok
    THEN [ok |-> TRUE, val |-> PyBool(FALSE), global |-> got.global, constructed |-> FALSE, auth |-> None]
    ELSE IF auth.raised
    THEN [ok |-> TRUE, val |-> PyBool(FALSE), global |-> got.global, constructed |-> got.constructed, auth |-> auth]
    ELSE IF Truthy(auth.value)
    THEN [ok |-> TRUE, val |-> PyBool(TRUE), global |-> got.global, constructed |-> got.constructed, auth |-> auth]
    ELSE [ok |-> TRUE, val |-> PyBool(FALSE), global |-> got.global, constructed |-> got.constructed, auth |-> auth]

\* The event of an operation: its argument, the global and the number of
\* clients constructed when it started, whether it constructed a client, the
\* client it worked with (None if it got none), and how it ended.
EvOp(op, arg, made, used, raised, value) ==
    [op |-> op, arg |-> arg, global |-> langfuse_client, count |-> constructed, made |-> made,
     used |-> used, raised |-> raised, value |-> value]

InitSetup ==
    /\ env \in SetupEnvs
    /\ langfuse_client = None
    /\ constructed = 0
    /\ generations = 0
    /\ api_key = None
    /\ client = None
    /\ max_retries = None
    /\ retry_delay = None
    /\ calls = 0
    /\ NoCall
    /\ Quiet

\* One variable of os.environ is set or deleted (patch.dict).
Setenv ==
    /\ pc = "idle"
    /\ \E name \in DOMAIN env :
         \E value \in {setting[name] : setting \in SetupEnvs} \ {env[name]} :
           /\ env' = [env EXCEPT ![name] = value]
           /\ log' = <<EvOp("setenv", PyStr(name), FALSE, None, FALSE, value)>>
    /\ outcome' = None
    /\ UNCHANGED <<langfuse_client, constructed, brain, pc, locals, calls, generations, outside>>

\* observability._langfuse_client = None
ResetClient ==
    /\ pc = "idle"
    /\ langfuse_client # None
    /\ langfuse_client' = None
    /\ log' = <<EvOp("reset", None, FALSE, None, FALSE, None)>>
    /\ outcome' = None
    /\ UNCHANGED <<env, constructed, brain, pc, locals, calls, generations, outside>>

\* brain = Brain(api_key=a)
ConstructBrain ==
    /\ pc = "idle"
    /\ \E a \in ApiKeyArgs :
         LET made == Brain_init(a, DefaultBaseUrl, MaxRetries, MaxRetryDelay, env) IN
         IF made.ok
         THEN /\ api_key' = made.val.api_key
              /\ client' = made.val.client
              /\ max_retries' = made.val.max_retries
              /\ retry_delay' = made.val.retry_delay
              /\ outcome' = [type |-> "return", value |-> made.val]
              /\ log' = <<EvOp("Brain", a, FALSE, None, FALSE, made.val)>>
         ELSE /\ outcome' = [type |-> "raise", exc |-> made.exc]
              /\ log' = <<EvOp("Brain", a, FALSE, None, TRUE, made.exc)>>
              /\ UNCHANGED brain
    /\ UNCHANGED <<env, langfuse_client, constructed, pc, locals, calls, generations, outside>>

\* client = observability.init_langfuse_client()
InitLangfuseClient ==
    /\ pc = "idle"
    /\ constructed < MaxClients
    /\ LET made == init_langfuse_client(env, constructed + 1) IN
       IF made.ok
       THEN /\ constructed' = constructed + 1
            /\ outcome' = [type |-> "return", value |-> made.val]
            /\ log' = <<EvOp("init_langfuse_client", None, TRUE, made.val, FALSE, made.val)>>
       ELSE /\ outcome' = [type |-> "raise", exc |-> made.exc]
            /\ log' = <<EvOp("init_langfuse_client", None, FALSE, None, TRUE, made.exc)>>
            /\ UNCHANGED constructed
    /\ UNCHANGED <<env, langfuse_client, brain, pc, locals, calls, generations, outside>>

\* An operation that starts with "client = get_langfuse_client()" and then
\* calls a method of the client, which returns (ok) or raises.
ViaClient(op, outs) ==
    /\ langfuse_client # None \/ constructed < MaxClients
    /\ LET got == get_langfuse_client(langfuse_client, env, constructed + 1) IN
       /\ langfuse_client' = got.global
       /\ constructed' = IF got.constructed THEN constructed + 1 ELSE constructed
       /\ IF ~got.ok
          THEN /\ outcome' = [type |-> "raise", exc |-> got.exc]
               /\ log' = <<EvOp(op, None, FALSE, None, TRUE, got.exc)>>
          ELSE \E ok \in outs :
                 IF ok
                 THEN /\ outcome' = [type |-> "return", value |-> IF op = "get_langfuse_client" THEN got.val ELSE None]
                      /\ log' = <<EvOp(op, None, got.constructed, got.val, FALSE,
                                       IF op = "get_langfuse_client" THEN got.val ELSE None)>>
                 ELSE /\ outcome' = [type |-> "raise", exc |-> TelemetryError]
                      /\ log' = <<EvOp(op, None, got.constructed, got.val, TRUE, TelemetryError)>>
    /\ UNCHANGED <<env, brain, pc, locals, calls, generations, outside>>

\* client = observability.get_langfuse_client()
GetLangfuseClient ==
    /\ pc = "idle"
    /\ ViaClient("get_langfuse_client", {TRUE})

\* observability.create_generation(...) called directly
StartGeneration(outs) ==
    /\ pc = "idle"
    /\ ViaClient("create_generation", outs)

\* observability.flush_traces()
FlushTraces(outs) ==
    /\ pc = "idle"
    /\ ViaClient("flush_traces", outs)

\* observability.verify_langfuse_connection()
VerifyLangfuseConnection(auths) ==
    /\ pc = "idle"
    /\ langfuse_client # None \/ constructed < MaxClients
    /\ \E auth \in auths :
         LET got == verify_langfuse_connection(langfuse_client, env, constructed + 1, auth) IN
         /\ langfuse_client' = got.global
         /\ constructed' = IF got.constructed THEN constructed + 1 ELSE constructed
         /\ IF got.ok
            THEN /\ outcome' = [type |-> "return", value |-> got.val]
                 /\ log' = <<[EvOp("verify_langfuse_connection", None, got.constructed, got.global,
                                   FALSE, got.val) EXCEPT !.arg = got.auth]>>
            ELSE /\ outcome' = [type |-> "raise", exc |-> got.exc]
                 /\ log' = <<[EvOp("verify_langfuse_connection", None, got.constructed, got.global,
                                   TRUE, got.exc) EXCEPT !.arg = got.auth]>>
    /\ UNCHANGED <<env, brain, pc, locals, calls, generations, outside>>

NextSetup ==
    \/ Setenv
    \/ ResetClient
    \/ ConstructBrain
    \/ InitLangfuseClient
    \/ GetLangfuseClient
    \/ StartGeneration(BOOLEAN)
    \/ FlushTraces(BOOLEAN)
    \/ VerifyLangfuseConnection(AuthChecks)

SpecSetup == InitSetup /\ [][NextSetup]_vars

\* -------------------------------------------------------------- SpecRace
\* Threads that call get_langfuse_client() with no lock: a thread can be
\* switched out between evaluating "_langfuse_client is None", the call of
\* init_langfuse_client(), the store to the global, and the load of the global
\* for "return _langfuse_client".  log holds the stores to the global, in order.
Threads == 1..NumThreads

\* getter[t]: where thread t stands, the calls it has started, the number of
\* stores done when its call started, the client it constructed and has not
\* stored yet, and what its last call returned or raised.
GetterIdle == [pc |-> "idle", n |-> 0, start |-> 0, made |-> None, ret |-> None, exc |-> None]

EvStore(t, value) == [op |-> "store", thread |-> t, value |-> value]

\* Mutant of StoreGlobal: a store does not replace a client that is there.
StoreGlobal_FirstWins(global, made) == IF global = None THEN made ELSE global

\* "_langfuse_client = <the value init_langfuse_client() returned>"
StoreGlobal(global, made) == made

InitRace ==
    /\ env \in Envs
    /\ langfuse_client = None
    /\ constructed = 0
    /\ generations = 0
    /\ LET self == Brain_init(None, DefaultBaseUrl, MaxRetries, MaxRetryDelay, env).val IN
         /\ api_key = self.api_key
         /\ client = self.client
         /\ max_retries = self.max_retries
         /\ retry_delay = self.retry_delay
    /\ calls = 0
    /\ NoCall
    /\ current = 1
    /\ saved = <<>>
    /\ getter = [t \in Threads |-> GetterIdle]
    /\ clock = 0
    /\ message = None
    /\ mapping = None
    /\ rebuilt = None
    /\ conversations = <<>>

\* what a step of get_langfuse_client leaves alone besides the global, the
\* count of clients and log
GetFrame == <<env, generations, brain, pc, locals, outcome, calls, current, saved, clock, message, mapping, rebuilt,
              conversations>>

\* thread t calls get_langfuse_client()
GetCall(t) ==
    /\ getter[t].pc = "idle"
    /\ getter[t].n < MaxGets
    /\ getter' = [getter EXCEPT ![t] = [pc |-> "check", n |-> @.n + 1, start |-> Len(log),
                                        made |-> None, ret |-> None, exc |-> None]]
    /\ UNCHANGED <<langfuse_client, constructed, log, GetFrame>>

\* if _langfuse_client is None:
GetCheck(t) ==
    /\ getter[t].pc = "check"
    /\ getter' = [getter EXCEPT ![t].pc = IF langfuse_client = None THEN "init" ELSE "return"]
    /\ UNCHANGED <<langfuse_client, constructed, log, GetFrame>>

\* init_langfuse_client() returns a new client to the thread, or raises
GetInit(t) ==
    /\ getter[t].pc = "init"
    /\ LET made == init_langfuse_client(env, constructed + 1) IN
       IF made.ok
       THEN /\ getter' = [getter EXCEPT ![t].pc = "store", ![t].made = made.val]
            /\ constructed' = constructed + 1
       ELSE /\ getter' = [getter EXCEPT ![t].pc = "idle", ![t].exc = made.exc]
            /\ UNCHANGED constructed
    /\ UNCHANGED <<langfuse_client, log, GetFrame>>

\* _langfuse_client = ...
GetStore(t) ==
    /\ getter[t].pc = "store"
    /\ langfuse_client' = StoreGlobal(langfuse_client, getter[t].made)
    /\ log' = Append(log, EvStore(t, getter[t].made))
    /\ getter' = [getter EXCEPT ![t].pc = "return", ![t].made = None]
    /\ UNCHANGED <<constructed, GetFrame>>

\* return _langfuse_client
GetReturn(t) ==
    /\ getter[t].pc = "return"
    /\ getter' = [getter EXCEPT ![t].pc = "idle", ![t].ret = langfuse_client]
    /\ UNCHANGED <<langfuse_client, constructed, log, GetFrame>>

NextRace ==
    \E t \in Threads :
      \/ GetCall(t)
      \/ GetCheck(t)
      \/ GetInit(t)
      \/ GetStore(t)
      \/ GetReturn(t)

SpecRace == InitRace /\ [][NextRace]_vars

\* ------------------------------------------------------------ SpecThreads
\* Threads that call complete on one Brain.  The variables pc .. log hold the
\* frame of the thread that is running; the frames of the others are in
\* saved.  A thread switch can happen between any two steps.  The Brain, the
\* Langfuse client and the counters are shared.

\* Mutant of Frame: the loop variable is not part of the frame.
Frame_SharedAttempt ==
    [pc |-> pc, args |-> args, track_generation |-> track_generation, call_kwargs |-> call_kwargs,
     generation |-> generation, last_error |-> last_error, attempt |-> 0, e |-> e,
     response |-> response, result |-> result, outcome |-> outcome, log |-> log]

\* The frame of the running thread: the parameters and locals of complete,
\* where it stands, its outcome and what the stubs received from it.
Frame ==
    [pc |-> pc, args |-> args, track_generation |-> track_generation, call_kwargs |-> call_kwargs,
     generation |-> generation, last_error |-> last_error, attempt |-> attempt, e |-> e,
     response |-> response, result |-> result, outcome |-> outcome, log |-> log]

\* The frame of a thread that has not called complete yet.
IdleFrame ==
    [pc |-> "idle", args |-> None, track_generation |-> FALSE, call_kwargs |-> None,
     generation |-> None, last_error |-> None, attempt |-> 0, e |-> None,
     response |-> None, result |-> None, outcome |-> None, log |-> <<>>]

\* The two threads that call complete.
Callers == {1, 2}

\* The transient failure that the gateway stub raises.
RateLimited == Exc("RateLimitError", <<"Rate limit exceeded">>)

InitThreads ==
    /\ env = FullEnv
    /\ langfuse_client = None
    /\ constructed = 0
    /\ generations = 0
    /\ LET self == Brain_init(None, DefaultBaseUrl, MaxRetries, MaxRetryDelay, env).val IN
         /\ api_key = self.api_key
         /\ client = self.client
         /\ max_retries = self.max_retries
         /\ retry_delay = self.retry_delay
    /\ calls = 0
    /\ NoCall
    /\ current = 1
    /\ saved = [t \in Callers \ {1} |-> IdleFrame]
    /\ getter = <<>>
    /\ clock = 0
    /\ message = None
    /\ mapping = None
    /\ rebuilt = None
    /\ conversations = <<>>

\* The running thread is switched out and thread t runs.
Switch(t) ==
    /\ t \in DOMAIN saved
    /\ current' = t
    /\ saved' = [u \in (DOMAIN saved \ {t}) \cup {current} |-> IF u = current THEN Frame ELSE saved[u]]
    /\ pc' = saved[t].pc
    /\ args' = saved[t].args
    /\ track_generation' = saved[t].track_generation
    /\ call_kwargs' = saved[t].call_kwargs
    /\ generation' = saved[t].generation
    /\ last_error' = saved[t].last_error
    /\ attempt' = saved[t].attempt
    /\ e' = saved[t].e
    /\ response' = saved[t].response
    /\ result' = saved[t].result
    /\ outcome' = saved[t].outcome
    /\ log' = saved[t].log
    /\ UNCHANGED <<env, langfuse_client, constructed, generations, brain, calls, getter, clock,
                   message, mapping, rebuilt, conversations>>

NextThreads ==
    \/ Complete({DefaultArgs})
    \/ CreateGeneration({TRUE})
    \/ For
    \/ GatewayReturns({TextResponse})
    \/ GatewayRaises({RateLimited})
    \/ ParseResponse
    \/ UpdateGeneration({TRUE})
    \/ EndGeneration({TRUE})
    \/ Return
    \/ Except
    \/ Sleep
    \/ MaxRetriesCleanup({TRUE})
    \/ RaiseMaxRetries
    \/ \E t \in Callers : Switch(t)

SpecThreads == InitThreads /\ [][NextThreads]_vars

\* -------------------------------------------------------- core/schema.py
\* A model instance is its class and its field values; datetime.now() is the
\* value of clock.
Datetime(t) == [type |-> "datetime", t |-> t]
Model(variant, fields) == [type |-> variant, fields |-> fields]
Variants == {"UserMessage", "AssistantMessage", "ToolCallMessage", "ToolResultMessage"}
IsModel(v) == v.type \in Variants

\* The fields declared without a default.
Required(variant) ==
    CASE variant = "UserMessage" -> {"content"}
      [] variant = "AssistantMessage" -> {"content", "model"}
      [] variant = "ToolCallMessage" -> {"tool_name", "arguments", "call_id"}
      [] variant = "ToolResultMessage" -> {"tool_name", "result", "call_id"}
      [] variant = "ConversationThread" -> {"thread_id"}

\* The fields declared with a default or a default_factory, and their values
\* when the instance is made at time now.
Defaults(variant, now) ==
    CASE variant = "UserMessage" ->
           [role |-> PyStr("user"), timestamp |-> Datetime(now), metadata |-> EmptyDict]
      [] variant = "AssistantMessage" ->
           [role |-> PyStr("assistant"), usage |-> None, timestamp |-> Datetime(now),
            metadata |-> EmptyDict]
      [] variant = "ToolCallMessage" ->
           [role |-> PyStr("tool_call"), timestamp |-> Datetime(now), metadata |-> EmptyDict]
      [] variant = "ToolResultMessage" ->
           [role |-> PyStr("tool_result"), success |-> PyBool(TRUE), timestamp |-> Datetime(now),
            metadata |-> EmptyDict]
      [] variant = "ConversationThread" ->
           [user_id |-> None, messages |-> PyList(<<>>), metadata |-> EmptyDict,
            created_at |-> Datetime(now), updated_at |-> Datetime(now)]

\* Whether v passes the validation of the field's annotation.
Valid(name, v) ==
    CASE name \in {"role", "content", "model", "tool_name", "call_id", "thread_id"} -> v.type = "str"
      [] name \in {"timestamp", "created_at", "updated_at"} -> v.type = "datetime"
      [] name = "user_id" -> v.type \in {"str", "NoneType"}
      [] name = "messages" -> v.type = "list" /\ \A i \in 1..Len(v.list) : v.list[i].type \in Variants
      [] name \in {"metadata", "arguments"} -> v.type = "dict"
      [] name = "usage" -> v.type \in {"dict", "NoneType"}
      [] name = "success" -> v.type = "bool"
      [] name = "result" -> TRUE

ValidationError(name) == Exc("ValidationError", <<name>>)

\* Mutant of FieldValue: the timestamp is always made by the default_factory.
FieldValue_FreshTimestamp(kwargs, defaults, name) ==
    IF name \in DOMAIN kwargs /\ name # "timestamp" THEN kwargs[name] ELSE defaults[name]

\* The value of a field: the keyword argument if there is one, else the default.
FieldValue(kwargs, defaults, name) ==
    IF name \in DOMAIN kwargs THEN kwargs[name] ELSE defaults[name]

\* Variant(**kwargs) at time now: the instance, or the ValidationError raised.
\* Keyword arguments that are not fields are ignored.
Construct(variant, kwargs, now) ==
    LET defaults == Defaults(variant, now)
        names == Required(variant) \cup DOMAIN defaults
        missing == Required(variant) \ DOMAIN kwargs
        invalid == {n \in names \cap DOMAIN kwargs : ~Valid(n, kwargs[n])}
    IN  IF missing # {} THEN Raise(ValidationError(CHOOSE n \in missing : TRUE))
        ELSE IF invalid # {} THEN Raise(ValidationError(CHOOSE n \in invalid : TRUE))
        ELSE Ok(Model(variant, [n \in names |-> FieldValue(kwargs, defaults, n)]))

\* model_dump() / dict(): the fields as a mapping; a model instance inside a
\* field, a list or a mapping is turned into a mapping as well.
RECURSIVE Dump(_)
Dump(v) ==
    IF IsModel(v) THEN PyDict([n \in DOMAIN v.fields |-> Dump(v.fields[n])])
    ELSE IF v.type = "dict" /\ DOMAIN v.dict # {} THEN PyDict([k \in DOMAIN v.dict |-> Dump(v.dict[k])])
    ELSE IF v.type = "list" /\ Len(v.list) > 0 THEN PyList([i \in 1..Len(v.list) |-> Dump(v.list[i])])
    ELSE v

\* The values given to fields annotated Any or Dict[str, Any].
Greeting == Construct("UserMessage", [content |-> PyStr("Hello")], 0).val
PlainValues ==
    { None, PyStr("42"), PyInt(42), PyList(<<PyInt(1), PyStr("a")>>), EmptyDict,
      PyDict([q |-> PyStr("latest AI news")]) }
AnyValues == PlainValues \cup { Greeting, PyList(<<Greeting>>) }

\* The keyword arguments the messages are constructed with.
Inputs(variant) ==
    CASE variant = "UserMessage" ->
           { [content |-> PyStr("Hello")],
             [content |-> PyStr("Hello"), role |-> PyStr("system")],
             [content |-> PyStr("Hello"), timestamp |-> Datetime(0)] }
           \cup { [content |-> PyStr("Hello"), metadata |-> PyDict([source |-> v])] : v \in AnyValues }
      [] variant = "AssistantMessage" ->
           { [content |-> PyStr("Test content"), model |-> PyStr("test-model")],
             [content |-> PyStr("Test content"), model |-> PyStr("test-model"),
              usage |-> PyDict([prompt_tokens |-> PyInt(10), completion_tokens |-> PyInt(5)])] }
      [] variant = "ToolCallMessage" ->
           { [tool_name |-> PyStr("search"), arguments |-> a, call_id |-> PyStr("call_1")] :
               a \in {EmptyDict} \cup { PyDict([query |-> v]) : v \in AnyValues } }
      [] variant = "ToolResultMessage" ->
           { [tool_name |-> PyStr("search"), result |-> v, call_id |-> PyStr("call_1")] :
               v \in AnyValues }
           \cup { [tool_name |-> PyStr("search"), result |-> None, call_id |-> PyStr("call_1"),
                   success |-> PyBool(FALSE)] }

\* ------------------------------------------------------------- SpecSchema
\* A message is constructed, serialised with model_dump() and reconstructed
\* from the mapping, while time passes.
InitSchema ==
    /\ env = FullEnv
    /\ langfuse_client = None
    /\ constructed = 0
    /\ generations = 0
    /\ LET self == Brain_init(None, DefaultBaseUrl, MaxRetries, MaxRetryDelay, env).val IN
         /\ api_key = self.api_key
         /\ client = self.client
         /\ max_retries = self.max_retries
         /\ retry_delay = self.retry_delay
    /\ calls = 0
    /\ NoCall
    /\ Quiet

SchemaFrame == <<env, langfuse_client, constructed, generations, brain, pc, locals, outcome, log,
                 calls, current, saved, getter, conversations>>

\* time passes
Tick ==
    /\ clock < MaxClock
    /\ clock' = clock + 1
    /\ UNCHANGED <<message, mapping, rebuilt, SchemaFrame>>

\* message = Variant(**kwargs)
ConstructMessage ==
    /\ \E variant \in Variants : \E kwargs \in Inputs(variant) :
         LET made == Construct(variant, kwargs, clock) IN
         /\ made.ok
         /\ message' = made.val
    /\ mapping' = None
    /\ rebuilt' = None
    /\ UNCHANGED <<clock, SchemaFrame>>

\* mapping = message.model_dump()
Serialize ==
    /\ message # None
    /\ mapping = None
    /\ mapping' = Dump(message)
    /\ UNCHANGED <<clock, message, rebuilt, SchemaFrame>>

\* rebuilt = Variant(**mapping), for the variant of message
Rebuild ==
    /\ mapping # None
    /\ rebuilt = None
    /\ conversations = <<>>
    /\ rebuilt' = Construct(message.type, mapping.dict, clock)
    /\ UNCHANGED <<clock, message, mapping, SchemaFrame>>

NextSchema ==
    \/ Tick
    \/ ConstructMessage
    \/ Serialize
    \/ Rebuild

SpecSchema == InitSchema /\ [][NextSchema]_vars

\* -------------------------------------------------------- SpecConversation
\* ConversationThread objects are constructed without messages and the
\* orchestration appends messages to them: thread.messages.append(msg).
\* log holds the appends made, in order.
EvAppend(i, msg) == [op |-> "append", thread |-> i, message |-> msg]

\* The messages that are appended.
Appended ==
    { Construct("UserMessage", [content |-> PyStr("Hello")], 0).val,
      Construct("AssistantMessage", [content |-> PyStr("Hi there!"), model |-> PyStr("test-model")], 0).val }

\* Mutant of ListAppend: the element is put in front.
ListAppend_Front(xs, x) == PyList(<<x>> \o xs.list)

\* xs.append(x): the list afterwards
ListAppend(xs, x) == PyList(Append(xs.list, x))

ConversationFrame == <<env, langfuse_client, constructed, generations, brain, pc, locals, outcome,
                       calls, current, saved, getter, clock, message, mapping, rebuilt>>

\* thread = ConversationThread(thread_id=..., user_id=...)
NewThread ==
    /\ Len(conversations) < MaxThreads
    /\ \E kwargs \in { [thread_id |-> PyStr("thread_123")],
                       [thread_id |-> PyStr("thread_123"), user_id |-> PyStr("user_456")] } :
         conversations' = Append(conversations, Construct("ConversationThread", kwargs, clock).val)
    /\ UNCHANGED <<log, ConversationFrame>>

\* conversations[i].messages.append(msg)
AppendMessage(i) ==
    /\ Len(log) < MaxMessages
    /\ \E msg \in Appended :
         /\ conversations' = [conversations EXCEPT ![i].fields.messages = ListAppend(@, msg)]
         /\ log' = Append(log, EvAppend(i, msg))
    /\ UNCHANGED ConversationFrame

NextConversation ==
    \/ NewThread
    \/ \E i \in 1..Len(conversations) : AppendMessage(i)

SpecConversation == InitSchema /\ [][NextConversation]_vars

\* ---------------------------------------------------------- SpecLateConfig
\* get_langfuse_client is called while the Langfuse settings of os.environ
\* are changed between the calls.  log holds every call and every change, in
\* order, each with the environment and the global it found and the global it
\* left.
EvGetClient(got) ==
    [op |-> "get_langfuse_client", env |-> env, global |-> langfuse_client, after |-> got.global,
     made |-> got.constructed, raised |-> ~got.ok, value |-> IF got.ok THEN got.val ELSE got.exc]
EvSetenv(name, value) ==
    [op |-> "setenv", env |-> env, global |-> langfuse_client, after |-> langfuse_client,
     made |-> FALSE, raised |-> FALSE, value |-> PyDict([n \in {name} |-> value])]

LangfuseSettings == {"LANGFUSE_PUBLIC_KEY", "LANGFUSE_SECRET_KEY", "LANGFUSE_HOST"}

\* os.environ[name] = value, or del os.environ[name], for a Langfuse setting
LateSetenv ==
    /\ pc = "idle"
    /\ Len(log) < MaxOps
    /\ \E name \in LangfuseSettings :
         \E value \in {setting[name] : setting \in SetupEnvs} \ {env[name]} :
           /\ env' = [env EXCEPT ![name] = value]
           /\ log' = Append(log, EvSetenv(name, value))
    /\ outcome' = None
    /\ UNCHANGED <<langfuse_client, constructed, brain, pc, locals, calls, generations, outside>>

\* client = observability.get_langfuse_client()
LateGetLangfuseClient ==
    /\ pc = "idle"
    /\ Len(log) < MaxOps
    /\ LET got == get_langfuse_client(langfuse_client, env, constructed + 1) IN
       /\ langfuse_client' = got.global
       /\ constructed' = IF got.constructed THEN constructed + 1 ELSE constructed
       /\ outcome' = IF got.ok THEN [type |-> "return", value |-> got.val]
                     ELSE [type |-> "raise", exc |-> got.exc]
       /\ log' = Append(log, EvGetClient(got))
    /\ UNCHANGED <<env, brain, pc, locals, calls, generations, outside>>

NextLateConfig ==
    \/ LateSetenv
    \/ LateGetLangfuseClient

SpecLateConfig == InitSetup /\ [][NextLateConfig]_vars

\* -------------------------------------------------------------- SpecUpdate
\* observability.update_generation called directly on a generation object,
\* with every combination of the arguments below; generation.update returns
\* or raises.  log holds the event of the call, whose value is the sequence of
\* calls the generation object received.
UpdateOutputs == { None, PyStr("Hello there!"), EmptyDict, PyDict([response |-> PyStr("Hello there!")]) }
UpdateUsages ==
    { None, EmptyDict, PyDict([total_tokens |-> PyInt(15)]),
      PyDict([prompt_tokens |-> PyInt(10), completion_tokens |-> PyInt(5), total_tokens |-> PyInt(15)]) }
UpdateMetadata ==
    { None, EmptyDict, PyDict([status |-> PyStr("success")]),
      PyDict([status |-> PyStr("success"), attempt |-> PyInt(1)]) }

UpdateGenerationCall(outs) ==
    /\ pc = "idle"
    /\ \E output_data \in UpdateOutputs, usage \in UpdateUsages, metadata \in UpdateMetadata, ok \in outs :
         /\ log' = <<EvOp("update_generation",
                          [output_data |-> output_data, usage |-> usage, metadata |-> metadata],
                          FALSE, None, ~ok,
                          <<EvUpdate(Generation(1), update_kwargs(output_data, usage, metadata), ~ok)>>)>>
         /\ outcome' = IF ok THEN [type |-> "return", value |-> None]
                       ELSE [type |-> "raise", exc |-> TelemetryError]
    /\ UNCHANGED <<env, langfuse_client, constructed, generations, brain, pc, locals, calls, outside>>

NextUpdate == UpdateGenerationCall(BOOLEAN)

SpecUpdate == InitSchema /\ [][NextUpdate]_vars

\* =================================================================== claims
\* What the stubs saw during the call of complete that is running or done.
GatewayCalls == SelectSeq(log, LAMBDA ev : ev.op = "gateway")
Sleeps == SelectSeq(log, LAMBDA ev : ev.op = "sleep")
Creates == SelectSeq(log, LAMBDA ev : ev.op = "create_generation")
Updates == SelectSeq(log, LAMBDA ev : ev.op = "update_generation")
Ends == SelectSeq(log, LAMBDA ev : ev.op = "end_generation")
TelemetryOps == {"init_langfuse_client", "create_generation", "update_generation", "end_generation"}
TelemetryRaised == \E i \in 1..Len(log) : log[i].op \in TelemetryOps /\ log[i].raised
Done == pc = "done"
Returned == Done /\ outcome.type = "return"
Raised == Done /\ outcome.type = "raise"
RaisedBrainError == Raised /\ outcome.exc.type = "BrainError"
TransientFailure(ev) == ev.raised /\ (ev.value.type = "RateLimitError" \/ IsSubclass(ev.value.type, "APIError"))
Contains(msg, part) == \E i \in 0..(Len(msg) - Len(part)) : SubSeq(msg, i + 1, i + Len(part)) = part

\* C1: in a call that ended without a telemetry call raising, for every k with
\* 0 <= k < max_retries: if the first k gateway attempts raised transient errors
\* then attempt k+1 was made, and if it returned a normalizable response then
\* complete returned the normalized result of that response and the gateway was
\* invoked exactly k+1 times.
C1_RetryThenSuccess ==
    (Done /\ ~TelemetryRaised) =>
      \A k \in 0..MaxRetries + 1 :
        ( /\ k < max_retries
          /\ Len(GatewayCalls) >= k
          /\ \A i \in 1..k : TransientFailure(GatewayCalls[i]) )
        => /\ Len(GatewayCalls) >= k + 1
           /\ ( ~GatewayCalls[k + 1].raised /\ parse_response(GatewayCalls[k + 1].value).ok )
              => /\ Len(GatewayCalls) = k + 1
                 /\ outcome = [type |-> "return",
                               value |-> parse_response(GatewayCalls[k + 1].value).val]

\* C1 witness: two transient failures of different classes, then success, tracked.
C1_Witness ==
    /\ Returned
    /\ track_generation
    /\ Len(GatewayCalls) = 3
    /\ GatewayCalls[1].value.type = "RateLimitError"
    /\ GatewayCalls[2].value.type = "APIError"
    /\ outcome.value = parse_response(GatewayCalls[3].value).val

\* C2: when every gateway attempt raises a transient error, max_retries >= 1 and
\* no telemetry call raises, complete raises BrainError "Max retries (n)
\* exceeded. Last error: <last error>" after exactly max_retries attempts, and
\* with tracking the record was closed exactly once, as the last thing before
\* the raise.
C2_RetriesExhausted ==
    ( /\ Done
      /\ max_retries >= 1
      /\ Len(GatewayCalls) >= 1
      /\ \A i \in 1..Len(GatewayCalls) : TransientFailure(GatewayCalls[i])
      /\ ~TelemetryRaised )
    => /\ RaisedBrainError
       /\ Len(GatewayCalls) = max_retries
       /\ outcome.exc.msg = <<"Max retries (", ToString(max_retries), ") exceeded. Last error: ">>
                            \o GatewayCalls[max_retries].value.msg
       /\ track_generation =>
            /\ Len(Ends) = 1
            /\ log[Len(log)] = EvEnd(Creates[1].generation, FALSE)
       /\ ~track_generation => Len(Ends) = 0

C2_Witness ==
    /\ RaisedBrainError
    /\ track_generation
    /\ max_retries = 3
    /\ Len(GatewayCalls) = 3
    /\ \A i \in 1..3 : TransientFailure(GatewayCalls[i])
    /\ GatewayCalls[1].value # GatewayCalls[3].value
    /\ Len(Ends) = 1

\* C3: every wait follows the i-th failed transient attempt (i >= 1, i <
\* max_retries), lasts retry_delay * i and is followed by attempt i+1; every
\* attempt but the first follows such a wait; a call that exhausted its retries
\* made exactly max_retries - 1 waits.
C3_LinearBackoff ==
    /\ \A j \in 1..Len(log) :
         log[j].op = "sleep" =>
           /\ j > 1
           /\ log[j - 1].op = "gateway"
           /\ TransientFailure(log[j - 1])
           /\ log[j - 1].attempt < max_retries
           /\ log[j].secs = retry_delay * log[j - 1].attempt
           /\ j < Len(log) => log[j + 1].op = "gateway" /\ log[j + 1].attempt = log[j - 1].attempt + 1
    /\ \A j \in 1..Len(log) :
         (log[j].op = "gateway" /\ log[j].attempt > 1) => (j > 1 /\ log[j - 1].op = "sleep")
    /\ \A i \in 1..Len(GatewayCalls) : GatewayCalls[i].attempt = i
    /\ Len(GatewayCalls) >= 1 =>
         Len(Sleeps) \in {Len(GatewayCalls) - 1, Len(GatewayCalls)}
    /\ (Done /\ Len(GatewayCalls) >= 1) => Len(Sleeps) = Len(GatewayCalls) - 1
    /\ (Done /\ max_retries >= 1 /\ Len(GatewayCalls) = max_retries
           /\ TransientFailure(GatewayCalls[max_retries]))
         => /\ Len(Sleeps) = max_retries - 1
            /\ log[Len(log)].op # "sleep"

C3_Witness ==
    /\ Done
    /\ max_retries = 3
    /\ retry_delay = 2
    /\ Len(GatewayCalls) = 3
    /\ TransientFailure(GatewayCalls[3])
    /\ Sleeps = <<EvSleep(2), EvSleep(4)>>

\* C4: when a gateway attempt raises an exception that is neither a
\* RateLimitError nor an APIError, no gateway attempt and no wait follows it,
\* the record is closed if one was opened, and (unless that close itself raises)
\* complete raises BrainError "LLM call failed: <original message>".
C4_NonRetriable ==
    \A j \in 1..Len(log) :
      (log[j].op = "gateway" /\ log[j].raised /\ ~TransientFailure(log[j])) =>
        /\ \A m \in (j + 1)..Len(log) : log[m].op \notin {"gateway", "sleep"}
        /\ Done =>
             /\ Len(Creates) = 1 => Ends = <<log[Len(log)]>> /\ Ends[1].generation = Creates[1].generation
             /\ Len(Creates) = 0 => Len(Ends) = 0
             /\ ~TelemetryRaised =>
                  /\ RaisedBrainError
                  /\ outcome.exc.msg = <<"LLM call failed: ">> \o log[j].value.msg
                  /\ Contains(outcome.exc.msg, log[j].value.msg)

C4_Witness ==
    /\ RaisedBrainError
    /\ track_generation
    /\ max_retries = 3
    /\ Len(GatewayCalls) = 2
    /\ GatewayCalls[2].raised
    /\ GatewayCalls[2].value.type = "ValueError"
    /\ Len(Ends) = 1
    /\ Len(Sleeps) = 1

\* The log without the construction of the Langfuse client, which is part of
\* the first create_generation of a process.
Calls == SelectSeq(log, LAMBDA ev : ev.op # "init_langfuse_client")
UsageOf(res) == PyDict([k \in {"prompt_tokens", "completion_tokens", "total_tokens"} |-> PyInt(res.usage[k])])

\* C5: a tracked call that returns has made, in this order: create_generation,
\* the gateway attempts (with their waits), one update_generation with the
\* returned result as output and its three token counts as usage, one
\* end_generation on the same record; and nothing else.
C5_TelemetryOrder ==
    (Returned /\ track_generation) =>
      LET n == Len(Calls) IN
      /\ n >= 4
      /\ Calls[1].op = "create_generation" /\ ~Calls[1].raised
      /\ \A j \in 2..(n - 2) : Calls[j].op \in {"gateway", "sleep"}
      /\ Calls[n - 2].op = "gateway" /\ ~Calls[n - 2].raised
      /\ Calls[n - 1] = EvUpdate(Calls[1].generation,
                                 [k \in {"output", "usage_details"} |->
                                    IF k = "output" THEN outcome.value ELSE UsageOf(outcome.value)],
                                 FALSE)
      /\ Calls[n] = EvEnd(Calls[1].generation, FALSE)
      /\ outcome.value.usage = [prompt_tokens |-> Calls[n - 2].value.usage.prompt_tokens,
                                completion_tokens |-> Calls[n - 2].value.usage.completion_tokens,
                                total_tokens |-> Calls[n - 2].value.usage.total_tokens]
      /\ Len(Creates) = 1 /\ Len(Updates) = 1 /\ Len(Ends) = 1

C5_Witness ==
    /\ Returned
    /\ track_generation
    /\ Len(GatewayCalls) = 2
    /\ Len(Updates) = 1
    /\ Len(Ends) = 1
    /\ outcome.value.tool_calls # None

\* C6: a call with track_generation=False makes no telemetry call and does not
\* construct or touch the Langfuse client, whatever its exit path.
C6_NoTelemetryWhenDisabled ==
    [][ (pc # "idle" /\ ~track_generation) =>
          /\ langfuse_client' = langfuse_client
          /\ generation = None
          /\ \A j \in 1..Len(log') : log'[j].op \notin TelemetryOps ]_vars

C6_Witness ==
    /\ Raised
    /\ ~track_generation
    /\ Len(GatewayCalls) = 3
    /\ langfuse_client = None
    /\ calls = 1

\* C7 as stated: whatever the gateway and the telemetry calls do, an exception
\* that leaves complete is a BrainError.
C7_AlwaysBrainError == Raised => outcome.exc.type = "BrainError"

\* C7 amended: an exception that leaves complete is a BrainError, except that
\* the exception of a failing create_generation (a missing Langfuse setting
\* included) and of a failing end_generation called in an except clause or after
\* the loop leaves complete unchanged.
C7_BrainErrorUnlessTelemetry ==
    Raised =>
      LET last == log[Len(log)] IN
      IF log # <<>> /\ last.raised /\ last.op \in {"init_langfuse_client", "create_generation", "end_generation"}
      THEN /\ outcome.exc.type \in {"ValueError", "RuntimeError"}
           /\ last.op = "init_langfuse_client" <=> outcome.exc.type = "ValueError"
           /\ last.op = "end_generation" =>
                ~(Len(Ends) = 1 /\ Len(Updates) = 1 /\ ~Updates[1].raised)
      ELSE /\ outcome.exc.type = "BrainError"
           /\ Head(outcome.exc.msg) \in {"Max retries (", "LLM call failed: ", "Max retries exceeded. Last error: "}

C7_Witness ==
    /\ RaisedBrainError
    /\ Len(Updates) = 1
    /\ Updates[1].raised
    /\ Len(Ends) = 1

\* The response of the first gateway attempt, and its parts.
FirstResponse == GatewayCalls[1].value
Answered == Done /\ Len(GatewayCalls) >= 1 /\ ~GatewayCalls[1].raised
WellFormed(r) == Len(r.choices) >= 1 /\ r.usage # None
Invocations(r) ==
    LET t == r.choices[1].message.tool_calls IN IF t = None THEN <<>> ELSE t.list
AllValues == ObjectValues \cup NonObjectValues
\* entry is the parsed form of tool call tc, whose payload encodes a value
ParsedNormally(entry, tc) ==
    \E v \in AllValues :
      /\ tc.function.arguments = JsonText(JsonDumps(v))
      /\ entry = [id |-> tc.id, name |-> tc.function.name, arguments |-> v]

\* C8: for a response without tool invocations (tool_calls None or []), complete
\* returns tool_calls = None and the message text as content; and a returned
\* result has tool_calls = None exactly when the response has no invocation.
C8_TextOnly ==
    (Answered /\ WellFormed(FirstResponse)) =>
      /\ Invocations(FirstResponse) = <<>> =>
           /\ Returned
           /\ outcome.value.tool_calls = None
           /\ outcome.value.content = FirstResponse.choices[1].message.content
      /\ Returned => (outcome.value.tool_calls = None <=> Invocations(FirstResponse) = <<>>)

C8_Witness ==
    /\ Returned
    /\ FirstResponse.choices[1].message.tool_calls = PyList(<<>>)
    /\ outcome.value.content = PyStr("Hello! How can I help you?")
    /\ outcome.value.tool_calls = None

\* C9: for a response with N >= 1 tool invocations whose payloads all are valid
\* JSON, complete returns N entries in the order of the response, entry i with
\* the id, the function name and the decoded arguments of invocation i and
\* nothing else (no error field).
C9_ValidToolCalls ==
    LET tcs == Invocations(FirstResponse) IN
    ( /\ Answered /\ WellFormed(FirstResponse)
      /\ Len(tcs) >= 1
      /\ \A i \in 1..Len(tcs) : tcs[i].function.arguments \in ValidPayloads )
    => /\ Returned
       /\ outcome.value.tool_calls.type = "list"
       /\ Len(outcome.value.tool_calls.list) = Len(tcs)
       /\ \A i \in 1..Len(tcs) : ParsedNormally(outcome.value.tool_calls.list[i], tcs[i])

C9_Witness ==
    /\ Returned
    /\ Len(Invocations(FirstResponse)) = 2
    /\ Invocations(FirstResponse)[1].id # Invocations(FirstResponse)[2].id
    /\ \A i \in 1..2 : Invocations(FirstResponse)[i].function.arguments \in ValidPayloads
    /\ outcome.value.tool_calls.list[2].arguments = PyDict([k \in {"a"} |-> PyInt(1)])
    /\ outcome.value.tool_calls.list[1].arguments.type = "dict"
    /\ "q" \in DOMAIN outcome.value.tool_calls.list[1].arguments.dict

\* C10: for a response with N tool invocations whose payloads are strings, some
\* of them not valid JSON, complete returns (after that one gateway attempt) N
\* entries in order; an entry of an invalid payload has arguments = {} and a
\* non-empty error string, every other entry is parsed normally, without error.
C10_InvalidJsonNonFatal ==
    LET tcs == Invocations(FirstResponse) IN
    ( /\ Answered /\ WellFormed(FirstResponse)
      /\ \A i \in 1..Len(tcs) : tcs[i].function.arguments \in ValidPayloads \cup InvalidPayloads
      /\ \E i \in 1..Len(tcs) : tcs[i].function.arguments \in InvalidPayloads )
    => /\ Returned
       /\ Len(GatewayCalls) = 1
       /\ Len(Sleeps) = 0
       /\ Len(outcome.value.tool_calls.list) = Len(tcs)
       /\ \A i \in 1..Len(tcs) :
            LET entry == outcome.value.tool_calls.list[i] IN
            IF tcs[i].function.arguments \in InvalidPayloads
            THEN /\ DOMAIN entry = {"id", "name", "arguments", "error"}
                 /\ entry.id = tcs[i].id
                 /\ entry.name = tcs[i].function.name
                 /\ entry.arguments = EmptyDict
                 /\ entry.error # <<>> /\ Head(entry.error) # ""
            ELSE ParsedNormally(entry, tcs[i])

C10_Witness ==
    /\ Returned
    /\ Len(GatewayCalls) = 1
    /\ Len(Invocations(FirstResponse)) = 2
    /\ Invocations(FirstResponse)[1].function.arguments \in InvalidPayloads
    /\ Invocations(FirstResponse)[2].function.arguments \in ValidPayloads
    /\ "error" \in DOMAIN outcome.value.tool_calls.list[1]
    /\ "error" \notin DOMAIN outcome.value.tool_calls.list[2]

\* C11: in every result that complete returns, each tool-call entry has the
\* fields id, name, arguments and possibly error, and arguments is a mapping,
\* whatever payload the gateway sent (a JSON list, number, string or null too).
C11_ArgumentsAreMappings ==
    (Returned /\ outcome.value.tool_calls # None) =>
      \A i \in 1..Len(outcome.value.tool_calls.list) :
        LET entry == outcome.value.tool_calls.list[i] IN
        /\ {"id", "name", "arguments"} \subseteq DOMAIN entry
        /\ DOMAIN entry \subseteq {"id", "name", "arguments", "error"}
        /\ entry.arguments.type = "dict"

\* The first telemetry call of the log that raised (0 when none did).
FirstTelemetryFailure ==
    IF TelemetryRaised
    THEN CHOOSE i \in 1..Len(log) :
           /\ log[i].op \in TelemetryOps /\ log[i].raised
           /\ \A j \in 1..(i - 1) : ~(log[j].op \in TelemetryOps /\ log[j].raised)
    ELSE 0
\* A telemetry call made inside the try block: update_generation, or the
\* end_generation that follows a successful update_generation.
InsideTry(i) ==
    \/ log[i].op = "update_generation"
    \/ log[i].op = "end_generation" /\ i > 1 /\ log[i - 1].op = "update_generation" /\ ~log[i - 1].raised

\* C12 as stated: a telemetry call that fails in a tracked call leaves complete
\* as the exception it raised, neither swallowed nor converted.
C12_TelemetryFailureUnconverted ==
    (Done /\ TelemetryRaised) => (Raised /\ outcome.exc.type # "BrainError")

\* C12 amended: a call in which a telemetry call failed never returns a result.
\* The exception of create_generation, and of end_generation called in an except
\* clause or after the loop, leaves complete unchanged; a failure of
\* update_generation or of the end_generation after it is caught by "except
\* Exception": end_generation is called (again) and, unless that raises,
\* complete raises BrainError "LLM call failed: <telemetry message>".
C12_TelemetryFailureNeverSwallowed ==
    (Done /\ TelemetryRaised) =>
      LET f == FirstTelemetryFailure IN
      /\ Raised
      /\ IF InsideTry(f)
         THEN /\ Len(log) = f + 1
              /\ log[f + 1].op = "end_generation"
              /\ log[f + 1].generation = log[f].generation
              /\ IF log[f + 1].raised
                 THEN outcome.exc = TelemetryError
                 ELSE outcome.exc = BrainError(<<"LLM call failed: ">> \o TelemetryError.msg)
         ELSE /\ Len(log) = f
              /\ log[f].op \in {"init_langfuse_client", "create_generation", "end_generation"}
              /\ outcome.exc.type # "BrainError"
              /\ log[f].op = "init_langfuse_client" <=> outcome.exc.type = "ValueError"
              /\ log[f].op # "init_langfuse_client" => outcome.exc = TelemetryError

C12_Witness ==
    /\ RaisedBrainError
    /\ Len(GatewayCalls) = 1
    /\ ~GatewayCalls[1].raised
    /\ Len(Updates) = 1
    /\ Ends = <<EvEnd(generation, TRUE), EvEnd(generation, FALSE)>>

\* ------------------------------------------------------ claims of SpecSetup
\* The operation that ran last was op.
Ran(op) == Len(log) = 1 /\ log[1].op = op
ClientOps == {"get_langfuse_client", "create_generation", "verify_langfuse_connection", "flush_traces"}
NamesVariable(exc, name) == exc.type = "ValueError" /\ Contains(exc.msg, <<name>>)

\* C13: Brain(api_key) with a missing or empty argument and OPENROUTER_API_KEY
\* unset or empty raises ValueError naming OPENROUTER_API_KEY, constructs no
\* gateway client and calls nothing; a non-empty argument is the key used,
\* whatever the environment holds.
C13_ApiKeyRequired ==
    [][ (Len(log') = 1 /\ log'[1].op = "Brain") =>
          LET ev == log'[1] IN
          /\ (~Truthy(ev.arg) /\ ~Truthy(env.OPENROUTER_API_KEY)) =>
               /\ ev.raised
               /\ outcome' = [type |-> "raise", exc |-> ev.value]
               /\ NamesVariable(ev.value, "OPENROUTER_API_KEY")
               /\ client' = client
               /\ api_key' = api_key
          /\ Truthy(ev.arg) =>
               /\ ~ev.raised
               /\ api_key' = ev.arg
               /\ client' = OpenAI(ev.arg, DefaultBaseUrl)
    ]_vars

C13_Witness ==
    /\ Ran("Brain")
    /\ log[1].raised
    /\ log[1].arg = None
    /\ env.OPENROUTER_API_KEY = PyStr("")
    /\ client = None

\* C14: init_langfuse_client raises ValueError naming LANGFUSE_PUBLIC_KEY when
\* that variable is unset or empty, else ValueError naming LANGFUSE_SECRET_KEY
\* when that one is unset or empty, and constructs no client in either case;
\* with both set and LANGFUSE_HOST unset the client has the default host.
C14_LangfuseConfigRequired ==
    Ran("init_langfuse_client") =>
      LET ev == log[1]
          pk == env.LANGFUSE_PUBLIC_KEY
          sk == env.LANGFUSE_SECRET_KEY
      IN  /\ ~Truthy(pk) =>
               /\ ev.raised /\ NamesVariable(ev.value, "LANGFUSE_PUBLIC_KEY")
               /\ ~NamesVariable(ev.value, "LANGFUSE_SECRET_KEY")
               /\ ~ev.made /\ constructed = ev.count
          /\ (Truthy(pk) /\ ~Truthy(sk)) =>
               /\ ev.raised /\ NamesVariable(ev.value, "LANGFUSE_SECRET_KEY")
               /\ ~ev.made /\ constructed = ev.count
          /\ (Truthy(pk) /\ Truthy(sk)) =>
               /\ ~ev.raised /\ ev.made /\ constructed = ev.count + 1
               /\ ev.value.type = "Langfuse"
               /\ ev.value.public_key = pk /\ ev.value.secret_key = sk
               /\ env.LANGFUSE_HOST = Unset => ev.value.host = PyStr("https://cloud.langfuse.com")

C14_Witness ==
    /\ Ran("init_langfuse_client")
    /\ env.LANGFUSE_PUBLIC_KEY = PyStr("")
    /\ env.LANGFUSE_SECRET_KEY = Unset
    /\ log[1].raised
    /\ NamesVariable(log[1].value, "LANGFUSE_PUBLIC_KEY")

\* C15: with one thread, once _langfuse_client holds a client every operation
\* that calls get_langfuse_client works with that instance, leaves it in the
\* global and constructs none; the global changes only by being reset to None,
\* and only a call that finds it None (or a direct init_langfuse_client call)
\* constructs a client.
C15_ClientReused ==
    [][ Len(log') = 1 =>
          LET ev == log'[1] IN
          /\ (langfuse_client # None /\ ev.op \in ClientOps) =>
               /\ ev.used = langfuse_client
               /\ langfuse_client' = langfuse_client
               /\ constructed' = constructed
          /\ (langfuse_client # None /\ langfuse_client' # langfuse_client) =>
               /\ ev.op = "reset"
               /\ langfuse_client' = None
          /\ constructed' # constructed =>
               /\ constructed' = constructed + 1
               /\ \/ ev.op = "init_langfuse_client"
                  \/ ev.op \in ClientOps /\ langfuse_client = None /\ langfuse_client'.id = constructed'
    ]_vars

C15_Witness ==
    /\ Ran("create_generation")
    /\ ~log[1].made
    /\ log[1].global # None
    /\ log[1].used = log[1].global
    /\ langfuse_client = log[1].global
    /\ constructed = MaxClients

\* C17: verify_langfuse_connection never raises; it returns True exactly when
\* auth_check was called and returned a truthy value, and False when auth_check
\* returned a falsy value, raised, or the client could not be initialised.
C17_VerifyNeverRaises ==
    Ran("verify_langfuse_connection") =>
      LET ev == log[1]
          auth == ev.arg
          configured == Truthy(env.LANGFUSE_PUBLIC_KEY) /\ Truthy(env.LANGFUSE_SECRET_KEY)
      IN  /\ ~ev.raised
          /\ outcome = [type |-> "return", value |-> ev.value]
          /\ ev.value \in {PyBool(TRUE), PyBool(FALSE)}
          /\ (auth = None) <=> (ev.global = None /\ ~configured)
          /\ (ev.value = PyBool(TRUE)) <=> (auth # None /\ ~auth.raised /\ Truthy(auth.value))

C17_Witness ==
    /\ Ran("verify_langfuse_connection")
    /\ log[1].arg = None
    /\ log[1].global = None
    /\ log[1].value = PyBool(FALSE)
    /\ env.LANGFUSE_SECRET_KEY = Unset

\* ------------------------------------------------------- claims of SpecRace
\* Thread t has a call that returned a client.
GotClient(t) == getter[t].pc = "idle" /\ getter[t].ret # None

\* C16: with unsynchronised first use the global always holds the client of
\* the last store (the last writer wins), there is one store per client
\* constructed and at most one per thread, and a call that started after every
\* store made so far returns the client of the last store.  The witness is the
\* interleaving in which two clients are constructed and the two first calls
\* return different instances.
C16_LastWriterWins ==
    /\ langfuse_client = IF Len(log) = 0 THEN None ELSE log[Len(log)].value
    /\ Len(log) <= constructed
    /\ constructed <= NumThreads
    /\ \A i, j \in 1..Len(log) : i # j => log[i].thread # log[j].thread /\ log[i].value.id # log[j].value.id
    /\ \A t \in Threads :
         (GotClient(t) /\ Len(log) > 0 /\ getter[t].start = Len(log)) =>
           getter[t].ret = log[Len(log)].value

C16_Witness ==
    /\ constructed = 2
    /\ Len(log) = 2
    /\ \E t, u \in Threads :
         /\ GotClient(t) /\ GotClient(u)
         /\ getter[t].n = 1 /\ getter[u].n = 1
         /\ getter[t].start = 0 /\ getter[u].start = 0
         /\ getter[t].ret # getter[u].ret
         /\ langfuse_client = getter[u].ret

\* ---------------------------------------------------- claims of SpecRequest
\* The request that the gateway client received last in the running call.
Sent == call_kwargs # None

\* C18: the request carries model, messages and temperature as supplied, has
\* the key max_tokens (with the supplied value) exactly when the caller passed
\* a max_tokens value, and the key tools (verbatim) exactly when the caller
\* passed a tools sequence; no key holds None.
C18_RequestCarriesWhatWasProvided ==
    Sent =>
      LET kw == call_kwargs.dict IN
      /\ {"model", "messages", "temperature"} \subseteq DOMAIN kw
      /\ DOMAIN kw \subseteq {"model", "messages", "temperature", "max_tokens", "tools"}
      /\ kw.model = args.model /\ kw.messages = args.messages /\ kw.temperature = args.temperature
      /\ ("max_tokens" \in DOMAIN kw) <=> (args.max_tokens # None)
      /\ ("tools" \in DOMAIN kw) <=> (args.tools # None)
      /\ "max_tokens" \in DOMAIN kw => kw.max_tokens = args.max_tokens
      /\ "tools" \in DOMAIN kw => kw.tools = args.tools
      /\ \A k \in DOMAIN kw : kw[k] # None

\* ---------------------------------------------------- claims of SpecThreads
\* The frame of caller t, running or not.
FrameOf(t) == IF t = current THEN Frame ELSE saved[t]
Of(frame, op) == SelectSeq(frame.log, LAMBDA ev : ev.op = op)

\* C19: in every interleaving of two calls of complete on one Brain, each call
\* numbers its gateway attempts 1, 2, .. and makes at most max_retries of them,
\* every attempt but its last one failed in this same call, its i-th sleep is
\* retry_delay * i, and the telemetry calls it makes are for the generation it
\* created itself, which no other call created.
C19_IndependentRetryLoops ==
    \A t \in Callers :
      LET f == FrameOf(t)
          gateway == Of(f, "gateway")
          sleeps == Of(f, "sleep")
          creates == Of(f, "create_generation")
          touched == Of(f, "update_generation") \o Of(f, "end_generation")
      IN  /\ Len(gateway) <= max_retries
          /\ \A i \in 1..Len(gateway) : gateway[i].attempt = i
          /\ \A i \in 1..(Len(gateway) - 1) : gateway[i].raised
          /\ Len(sleeps) <= Len(gateway)
          /\ Len(sleeps) >= Len(gateway) - 1
          /\ \A i \in 1..Len(sleeps) : sleeps[i].secs = retry_delay * i /\ gateway[i].raised
          /\ f.pc = "done" =>
               IF f.outcome.type = "return"
               THEN ~gateway[Len(gateway)].raised
               ELSE Len(gateway) = max_retries /\ gateway[Len(gateway)].raised
          /\ Len(creates) <= 1
          /\ \A i \in 1..Len(touched) : Len(creates) = 1 /\ touched[i].generation = creates[1].generation
          /\ \A u \in Callers \ {t} :
               \A i \in 1..Len(creates) : \A j \in 1..Len(Of(FrameOf(u), "create_generation")) :
                 creates[i].generation # Of(FrameOf(u), "create_generation")[j].generation

\* One call sleeps after its first failure while the other, which started its
\* telemetry record later, has already returned after one attempt.
C19_Witness ==
    \E t, u \in Callers :
      LET f == FrameOf(t)
          g == FrameOf(u)
      IN  /\ t # u
          /\ f.pc = "sleep"
          /\ Len(Of(f, "gateway")) = 1
          /\ f.generation = Generation(1)
          /\ g.pc = "done"
          /\ g.outcome.type = "return"
          /\ Len(Of(g, "gateway")) = 1
          /\ Of(g, "end_generation") = <<EvEnd(Generation(2), FALSE)>>

\* ----------------------------------------------------- claims of SpecSchema
\* v holds no model instance, at any depth.
RECURSIVE Plain(_)
Plain(v) ==
    IF IsModel(v) THEN FALSE
    ELSE IF v.type = "dict" THEN \A k \in DOMAIN v.dict : Plain(v.dict[k])
    ELSE IF v.type = "list" THEN \A i \in 1..Len(v.list) : Plain(v.list[i])
    ELSE TRUE
PlainFields(m) == \A n \in DOMAIN m.fields : Plain(m.fields[n])
RoundTripDone == rebuilt # None

\* C20 as stated: a message of any variant, serialised to a mapping and
\* reconstructed from it, is equal to the original in all fields.
C20_RoundTrip ==
    RoundTripDone => (rebuilt.ok /\ rebuilt.val = message)

\* C20 amended: the mapping carries every field of the message, the timestamp
\* too, and the message reconstructed from it, at whatever later time, is equal
\* to the original when no field holds a model instance; a model instance
\* inside result, arguments or metadata comes back as a mapping, so the
\* reconstructed message differs in that field only.
C20_RoundTripOfPlainData ==
    /\ mapping # None =>
         /\ DOMAIN mapping.dict = DOMAIN message.fields
         /\ mapping.dict.timestamp = message.fields.timestamp
    /\ RoundTripDone =>
         /\ rebuilt.ok
         /\ rebuilt.val.type = message.type
         /\ DOMAIN rebuilt.val.fields = DOMAIN message.fields
         /\ \A n \in DOMAIN message.fields :
              Plain(message.fields[n]) => rebuilt.val.fields[n] = message.fields[n]
         /\ rebuilt.val.fields.timestamp = message.fields.timestamp
         /\ PlainFields(message) <=> rebuilt.val = message

C20_Witness ==
    /\ RoundTripDone
    /\ message.type = "ToolResultMessage"
    /\ PlainFields(message)
    /\ message.fields.timestamp = Datetime(0)
    /\ clock = MaxClock
    /\ rebuilt = Ok(message)

\* The role tag that each variant declares as the default of its role field.
RoleTag(variant) == Defaults(variant, 0).role
RoleTags == { RoleTag(variant) : variant \in Variants }

\* C21: the role of every constructed message is one of the four tags and is
\* the tag of its variant, also when the constructor is given a role argument.
C21_RoleTagOfVariant ==
    message # None =>
      /\ message.fields.role \in RoleTags
      /\ message.fields.role = RoleTag(message.type)

\* ----------------------------------------------- claims of SpecConversation
\* The messages appended to the i-th thread, in the order of the appends.
AppendedTo(i) ==
    LET mine == SelectSeq(log, LAMBDA ev : ev.thread = i)
    IN  [k \in 1..Len(mine) |-> mine[k].message]

LastResponse == GatewayCalls[Len(GatewayCalls)].value

\* C23: the model and the three token counts of a returned result are those of
\* the gateway response, whatever model the caller asked for.
C23_ModelAndUsageFromResponse ==
    Returned =>
      /\ ~GatewayCalls[Len(GatewayCalls)].raised
      /\ outcome.value.model = LastResponse.model
      /\ DOMAIN outcome.value.usage = {"prompt_tokens", "completion_tokens", "total_tokens"}
      /\ outcome.value.usage.prompt_tokens = LastResponse.usage.prompt_tokens
      /\ outcome.value.usage.completion_tokens = LastResponse.usage.completion_tokens
      /\ outcome.value.usage.total_tokens = LastResponse.usage.total_tokens

C23_Witness ==
    /\ Returned
    /\ args.model = PyStr("anthropic/claude-3.5-sonnet")
    /\ LastResponse.model = "openai/gpt-4o"
    /\ outcome.value.model = "openai/gpt-4o"
    /\ outcome.value.usage.total_tokens = LastResponse.usage.total_tokens

\* ------------------------------------------------------- claims of SpecLive
AtMost(n) == IF n > 0 THEN n ELSE 0

\* C24: a call of complete never makes more than max_retries gateway attempts
\* nor more than max_retries - 1 waits, and every call that has started ends
\* (returns or raises), whatever the gateway and the telemetry calls do.
C24_Terminates ==
    /\ [](Len(GatewayCalls) <= AtMost(max_retries) /\ Len(Sleeps) <= AtMost(max_retries - 1))
    /\ (pc # "idle") ~> Done

C24_Witness ==
    /\ Raised
    /\ max_retries = MaxRetries
    /\ Len(GatewayCalls) = max_retries
    /\ Len(Sleeps) = max_retries - 1
    /\ calls = MaxCalls

\* C26: a tracked call opens its record once, before the first gateway
\* attempt, whatever the number of attempts: the log of the call never holds a
\* second create_generation, every gateway attempt comes after the one that
\* returned the record, and the attempts, the update and the end all happen
\* with that record as `generation`.
C26_OneRecordPerCall ==
    (pc # "idle" /\ track_generation) =>
      /\ Len(Creates) <= 1
      /\ (pc = "call" \/ GatewayCalls # <<>>) =>
           /\ Len(Creates) = 1
           /\ ~Creates[1].raised
           /\ generation = Creates[1].generation
           /\ \A i \in 1..Len(log) :
                log[i].op = "gateway" => \E j \in 1..(i - 1) : log[j] = Creates[1]
      /\ \A i \in 1..Len(log) :
           log[i].op \in {"update_generation", "end_generation"} =>
             (Len(Creates) = 1 /\ log[i].generation = Creates[1].generation)

C26_Witness ==
    /\ Returned
    /\ track_generation
    /\ Len(GatewayCalls) = MaxRetries
    /\ Len(Sleeps) = MaxRetries - 1
    /\ Len(Creates) = 1
    /\ Ends = <<EvEnd(Creates[1].generation, FALSE)>>

\* C27: a call of complete calls end_generation at most once, and makes no
\* telemetry call after it, on every exit path, also when update_generation
\* or end_generation raises.
C27_EndedOnceAndLast ==
    /\ Len(Ends) <= 1
    /\ \A i \in 1..Len(log) :
         log[i].op = "end_generation" =>
           \A j \in (i + 1)..Len(log) : log[j].op \notin TelemetryOps

Unnormalizable(r) ==
    \/ Len(r.choices) = 0
    \/ r.usage = None
    \/ \E i \in 1..Len(Invocations(r)) : Invocations(r)[i].function.arguments.type # "str"

\* C30: after a gateway response that cannot be normalised the call makes no
\* further gateway attempt, no wait and no update_generation; it ends raising
\* BrainError "LLM call failed: ...", having closed the record once if one was
\* opened.  Every other response, one with payloads that are not valid JSON
\* included, is returned: only a JSON decode error is recovered from.
C30_UnnormalizableIsFatal ==
    /\ \A j \in 1..Len(log) :
         (log[j].op = "gateway" /\ ~log[j].raised /\ Unnormalizable(log[j].value)) =>
           /\ \A m \in (j + 1)..Len(log) : log[m].op = "end_generation"
           /\ Done =>
                /\ RaisedBrainError
                /\ outcome.exc.msg[1] = "LLM call failed: "
                /\ Len(outcome.exc.msg) > 1
                /\ track_generation =>
                     /\ Len(log) = j + 1
                     /\ log[j + 1] = EvEnd(Creates[1].generation, FALSE)
                /\ ~track_generation => Len(log) = j
    /\ (Done /\ GatewayCalls # <<>> /\ ~GatewayCalls[Len(GatewayCalls)].raised /\ ~Unnormalizable(LastResponse)) =>
         Returned

C30_Witness ==
    /\ RaisedBrainError
    /\ track_generation
    /\ max_retries = MaxRetries
    /\ Len(GatewayCalls) = 1
    /\ WellFormed(LastResponse)
    /\ Len(Invocations(LastResponse)) = 2
    /\ Invocations(LastResponse)[1].function.arguments \in InvalidPayloads
    /\ Invocations(LastResponse)[2].function.arguments = None
    /\ Len(Ends) = 1
    /\ outcome.exc.msg[1] = "LLM call failed: "

\* ------------------------------------------------- claims of SpecLateConfig
\* Both required Langfuse settings are present and not empty.
Configured(environ) ==
    \A name \in {"LANGFUSE_PUBLIC_KEY", "LANGFUSE_SECRET_KEY"} : environ[name] \notin {Unset, PyStr("")}

\* C29: a call of get_langfuse_client that finds the global None and a
\* required setting missing raises ValueError and leaves the global None, so
\* that the next call finds it None again; every call that finds it None
\* attempts the initialisation with the environment of that moment, and when
\* the settings are there it constructs a client from them, returns it and
\* leaves it in the global.
C29_FailedInitNotCached ==
    /\ \A i \in 1..Len(log) :
         LET ev == log[i] IN
         /\ ev.global = (IF i = 1 THEN None ELSE log[i - 1].after)
         /\ ev.op = "get_langfuse_client" =>
              /\ (ev.global = None /\ ~Configured(ev.env)) =>
                   /\ ev.raised /\ ev.value.type = "ValueError"
                   /\ ~ev.made
                   /\ ev.after = None
              /\ (ev.global = None /\ Configured(ev.env)) =>
                   /\ ~ev.raised /\ ev.made
                   /\ ev.value.type = "Langfuse"
                   /\ ev.value.public_key = ev.env.LANGFUSE_PUBLIC_KEY
                   /\ ev.value.secret_key = ev.env.LANGFUSE_SECRET_KEY
                   /\ ev.after = ev.value
              /\ ev.raised => ev.after = None
    /\ langfuse_client = (IF log = <<>> THEN None ELSE log[Len(log)].after)

C29_Witness ==
    /\ Len(log) = 3
    /\ log[1].op = "get_langfuse_client" /\ log[1].raised /\ log[1].after = None
    /\ log[2].op = "setenv" /\ DOMAIN log[2].value.dict = {"LANGFUSE_SECRET_KEY"}
    /\ log[3].op = "get_langfuse_client" /\ ~log[3].raised /\ log[3].made
    /\ langfuse_client = log[3].value
    /\ constructed = 1

\* ----------------------------------------------------- claims of SpecUpdate
\* A usage or metadata argument was supplied and is not empty.
NonEmpty(v) == v # None /\ v # EmptyDict

\* C25: update_generation calls generation.update once, with output = the
\* given output_data, usage_details = the given usage exactly when that is
\* supplied and non-empty, metadata likewise, and no other key.
C25_UpdateKwargs ==
    Ran("update_generation") =>
      LET given == log[1].arg
          received == log[1].value
          kw == received[1].kwargs
      IN  /\ Len(received) = 1
          /\ received[1].op = "update_generation"
          /\ "output" \in DOMAIN kw /\ kw.output = given.output_data
          /\ DOMAIN kw \subseteq {"output", "usage_details", "metadata"}
          /\ ("usage_details" \in DOMAIN kw) <=> NonEmpty(given.usage)
          /\ ("metadata" \in DOMAIN kw) <=> NonEmpty(given.metadata)
          /\ "usage_details" \in DOMAIN kw => kw.usage_details = given.usage
          /\ "metadata" \in DOMAIN kw => kw.metadata = given.metadata

C25_Witness ==
    /\ Ran("update_generation")
    /\ log[1].arg.usage = EmptyDict
    /\ log[1].arg.metadata = PyDict([status |-> PyStr("success")])
    /\ DOMAIN log[1].value[1].kwargs = {"output", "metadata"}

=============================================================================
